---- MODULE Spec2Model ----
(***************************************************************************)
(* Sudoku engine of jingle2008/sudoku: the bit-mask backtracking solver     *)
(* (bitmaskSolver.ts), its callers solve and hasUniqueSolution (engine.ts)  *)
(* and the puzzle generator (puzzleGenerator.ts), as a state machine whose  *)
(* steps are the calls, loop iterations and returns of the source.          *)
(***************************************************************************)
EXTENDS Integers, Sequences, FiniteSets, TLC

(***************************************************************************)
(* Size constants and value encoding                                        *)
(***************************************************************************)
BOX_SIZE == 3
GRID_SIZE == BOX_SIZE * BOX_SIZE
BOARD_SIZE == GRID_SIZE * GRID_SIZE

\* Indices 0..GRID_SIZE-1 of rows, columns and boxes.
Idx == 0 .. (GRID_SIZE - 1)

\* The digits a cell may be given.
Digits == 1 .. GRID_SIZE

\* JavaScript null of Grid = (number | null)[][]; distinct from the number 0.
Null == -1

\* The solved grid of the engine tests, row by row.
SolvedRows ==
  << <<5, 3, 4, 6, 7, 8, 9, 1, 2>>,
     <<6, 7, 2, 1, 9, 5, 3, 4, 8>>,
     <<1, 9, 8, 3, 4, 2, 5, 6, 7>>,
     <<8, 5, 9, 7, 6, 1, 4, 2, 3>>,
     <<4, 2, 6, 8, 5, 3, 7, 9, 1>>,
     <<7, 1, 3, 9, 2, 4, 8, 5, 6>>,
     <<9, 6, 1, 5, 3, 7, 2, 8, 4>>,
     <<2, 8, 7, 4, 1, 9, 6, 3, 5>>,
     <<3, 4, 5, 2, 8, 6, 1, 7, 9>> >>

solvedGridFixture == [r \in Idx |-> [c \in Idx |-> SolvedRows[r + 1][c + 1]]]

\* Array(9).fill(null).map(() => Array(9).fill(null))
emptyGrid == [r \in Idx |-> [c \in Idx |-> Null]]

\* Array(GRID_SIZE).fill(null).map(() => Array(GRID_SIZE).fill(0))
ZeroGrid == [r \in Idx |-> [c \in Idx |-> 0]]

(***************************************************************************)
(* Bit masks: 1 << (val - 1), |=, &= ~bit, & on 9-bit fields                *)
(***************************************************************************)
\* 1 << (val - 1) on 32-bit integers: the shift count is taken modulo 32, so a
\* cell holding 0 yields 1 << 31, the sign bit.
SignBit == (-2147483647) - 1

Bit(val) == IF (val - 1) % 32 = 31 THEN SignBit ELSE 2 ^ ((val - 1) % 32)

\* (mask & bit) !== 0
HasBit(mask, bit) == IF bit = SignBit THEN mask < 0 ELSE (mask \div bit) % 2 = 1

\* mask | bit
OrBit(mask, bit) == IF HasBit(mask, bit) THEN mask ELSE mask + bit

\* mask & ~bit
AndNotBit(mask, bit) == IF HasBit(mask, bit) THEN mask - bit ELSE mask

\* Math.floor(row / BOX_SIZE) * BOX_SIZE + Math.floor(col / BOX_SIZE)
BoxOf(row, col) == (row \div BOX_SIZE) * BOX_SIZE + (col \div BOX_SIZE)

\* mutant: fillGrid given the isEmpty of the null representation
IsEmptyCellNullOnly(mode, cell) == cell = Null

(***************************************************************************)
(* The closures the three callers hand to bitmaskBacktrack                  *)
(*   "solve"  : engine.backtrack from solve           (null is empty)       *)
(*   "unique" : engine.backtrack from hasUniqueSolution (null is empty)     *)
(*   "fill"   : puzzleGenerator.fillGrid              (0 is empty)          *)
(***************************************************************************)
IsEmptyCell(mode, cell) == IF mode = "fill" THEN cell = 0 ELSE cell = Null

\* setCell(row, col, value): fillGrid stores 0 for null, engine stores value.
SetCell(mode, g, row, col, value) ==
  IF mode = "fill"
    THEN [g EXCEPT ![row][col] = IF value = Null THEN 0 ELSE value]
    ELSE [g EXCEPT ![row][col] = value]

\* onSolution() === true
OnSolution(mode) == mode \in {"solve", "fill"}

\* maxSolutions; 0 stands for undefined (falsy)
MaxSolutions(mode) == IF mode = "unique" THEN 2 ELSE 0

(***************************************************************************)
(* Mask initialisation from the grid                                        *)
(***************************************************************************)
RECURSIVE OrCells(_, _, _, _)
\* OR of the bits of the non-empty cells among cells[k..Len(cells)]
OrCells(mode, g, cells, k) ==
  IF k > Len(cells) THEN 0
  ELSE LET cell == g[cells[k][1]][cells[k][2]]
           rest == OrCells(mode, g, cells, k + 1)
       IN IF IsEmptyCell(mode, cell) THEN rest ELSE OrBit(rest, Bit(cell))

RowCells(row) == [k \in 1 .. GRID_SIZE |-> <<row, k - 1>>]
ColCells(col) == [k \in 1 .. GRID_SIZE |-> <<k - 1, col>>]
BoxCells(box) ==
  [k \in 1 .. GRID_SIZE |->
     << (box \div BOX_SIZE) * BOX_SIZE + ((k - 1) \div BOX_SIZE),
        (box % BOX_SIZE) * BOX_SIZE + ((k - 1) % BOX_SIZE) >>]

InitRowMask(mode, g) == [row \in Idx |-> OrCells(mode, g, RowCells(row), 1)]
InitColMask(mode, g) == [col \in Idx |-> OrCells(mode, g, ColCells(col), 1)]
InitBoxMask(mode, g) == [box \in Idx |-> OrCells(mode, g, BoxCells(box), 1)]

(***************************************************************************)
(* findMRVCell of bitmaskBacktrack                                          *)
(***************************************************************************)
\* mutant: the box mask is left out of presentMask
LegalOfRowAndColumn(rm, cm, bm, row, col) ==
  LET presentMask == [v \in Digits |->
         HasBit(rm[row], Bit(v)) \/ HasBit(cm[col], Bit(v))]
  IN SelectSeq([v \in 1 .. GRID_SIZE |-> v], LAMBDA v : ~presentMask[v])

\* legal values of (row, col): the digits whose bit is clear in presentMask
LegalOf(rm, cm, bm, row, col) ==
  LET presentMask == [v \in Digits |->
         HasBit(rm[row], Bit(v)) \/ HasBit(cm[col], Bit(v))
           \/ HasBit(bm[BoxOf(row, col)], Bit(v))]
  IN SelectSeq([v \in 1 .. GRID_SIZE |-> v], LAMBDA v : ~presentMask[v])

NoCell == [row |-> -1, col |-> -1, legal |-> << >>]

\* Body applied to the value of v, with v evaluated a single time
Once(v, Body(_)) == CHOOSE r \in {Body(x) : x \in {v}} : TRUE

RECURSIVE ScanCols(_, _, _, _, _, _, _, _)
\* the inner loop "for (col ...)" of one row, from column col on; acc carries
\* minOptions, best and whether "return best" was hit (legal.length === 1)
ScanCols(mode, g, rm, cm, bm, row, col, acc) ==
  IF col >= GRID_SIZE THEN acc
  ELSE IF IsEmptyCell(mode, g[row][col])
         THEN Once(LegalOf(rm, cm, bm, row, col), LAMBDA legal :
                LET hit == [minOptions |-> Len(legal),
                            best |-> [row |-> row, col |-> col, legal |-> legal],
                            done |-> Len(legal) = 1]
                IN IF Len(legal) < acc.minOptions
                     THEN IF hit.done THEN hit
                          ELSE ScanCols(mode, g, rm, cm, bm, row, col + 1, hit)
                     ELSE ScanCols(mode, g, rm, cm, bm, row, col + 1, acc))
         ELSE ScanCols(mode, g, rm, cm, bm, row, col + 1, acc)

RECURSIVE ScanRows(_, _, _, _, _, _, _)
\* the outer loop "for (row ...)" from row on
ScanRows(mode, g, rm, cm, bm, row, acc) ==
  IF row >= GRID_SIZE THEN acc.best
  ELSE Once(ScanCols(mode, g, rm, cm, bm, row, 0, acc), LAMBDA after :
         IF after.done THEN after.best
         ELSE ScanRows(mode, g, rm, cm, bm, row + 1, after))

FindMRVCell(mode, g, rm, cm, bm) ==
  ScanRows(mode, g, rm, cm, bm, 0,
           [minOptions |-> GRID_SIZE + 1, best |-> NoCell, done |-> FALSE])


(***************************************************************************)
(* engine.ts: getLegalValues and findMRVCell, which scan the grid           *)
(***************************************************************************)
\* getLegalValues(grid, row, col): every non-null value of the row, the column
\* and the box is present; the digits 1..9 not present, ascending
getLegalValues(g, row, col) ==
  LET present ==
        {g[row][i] : i \in {k \in Idx : g[row][k] # Null}}
          \cup {g[i][col] : i \in {k \in Idx : g[k][col] # Null}}
          \cup {g[(row \div BOX_SIZE) * BOX_SIZE + (k \div BOX_SIZE)]
                  [(col \div BOX_SIZE) * BOX_SIZE + (k % BOX_SIZE)] :
                 k \in {j \in Idx :
                          g[(row \div BOX_SIZE) * BOX_SIZE + (j \div BOX_SIZE)]
                           [(col \div BOX_SIZE) * BOX_SIZE + (j % BOX_SIZE)] # Null}}
  IN SelectSeq([v \in 1 .. GRID_SIZE |-> v], LAMBDA v : v \notin present)

RECURSIVE findMRVCellCols(_, _, _, _)
\* the inner loop of engine's findMRVCell for one row, from column col on
findMRVCellCols(g, row, col, acc) ==
  IF col >= GRID_SIZE THEN acc
  ELSE IF g[row][col] = Null
         THEN Once(getLegalValues(g, row, col), LAMBDA legal :
                IF Len(legal) < acc.minOptions
                  THEN IF Len(legal) = 1
                         THEN [minOptions |-> 1,
                               best |-> [row |-> row, col |-> col, legal |-> legal],
                               done |-> TRUE]
                         ELSE findMRVCellCols(g, row, col + 1,
                                [minOptions |-> Len(legal),
                                 best |-> [row |-> row, col |-> col, legal |-> legal],
                                 done |-> FALSE])
                  ELSE findMRVCellCols(g, row, col + 1, acc))
         ELSE findMRVCellCols(g, row, col + 1, acc)

RECURSIVE findMRVCellRows(_, _, _)
\* the outer loop of engine's findMRVCell from row on
findMRVCellRows(g, row, acc) ==
  IF row >= GRID_SIZE THEN acc.best
  ELSE Once(findMRVCellCols(g, row, 0, acc), LAMBDA after :
         IF after.done THEN after.best ELSE findMRVCellRows(g, row + 1, after))

\* engine.findMRVCell(grid); NoCell stands for null
findMRVCell(g) ==
  findMRVCellRows(g, 0, [minOptions |-> GRID_SIZE + 1, best |-> NoCell, done |-> FALSE])

(***************************************************************************)
(* Math.random() and the Fisher-Yates shuffles                              *)
(***************************************************************************)
\* rng = Free: every outcome of Math.random() is possible.
\* rng in 0..RngModulus-1: a pseudo-random stream, Math.random() = rng/RngModulus.
Free == -1
RngModulus == 65537
RngMultiplier == 75
RngIncrement == 74

NextRng(s) == IF s = Free THEN Free ELSE (s * RngMultiplier + RngIncrement) % RngModulus

\* Math.floor(Math.random() * n)
RandomBelow(s, n) == IF s = Free THEN 0 .. (n - 1) ELSE {(s * n) \div RngModulus}

\* [a[i], a[j]] = [a[j], a[i]] on 0-based positions i, j
Swap(a, i, j) == [a EXCEPT ![i + 1] = a[j + 1], ![j + 1] = a[i + 1]]

RECURSIVE FisherYatesDown(_, _, _, _)
\* for (let i = a.length - 1; i > 0; i--) { j = floor(random * (i + 1)); swap }
\* iterations i, i - 1, ..., lo: the set of possible (array, stream) outcomes
FisherYatesDown(a, i, lo, s) ==
  IF i < lo THEN {[arr |-> a, rng |-> s]}
  ELSE UNION {FisherYatesDown(Swap(a, i, j), i - 1, lo, NextRng(s)) :
                j \in RandomBelow(s, i + 1)}

RECURSIVE FisherYates(_, _, _)
\* the whole loop from i down to 1, evaluated GRID_SIZE iterations at a time
FisherYates(a, i, s) ==
  IF i <= 0 THEN {[arr |-> a, rng |-> s]}
  ELSE LET lo == IF i - GRID_SIZE < 1 THEN 1 ELSE i - GRID_SIZE + 1
       IN UNION {FisherYates(o.arr, lo - 1, o.rng) : o \in FisherYatesDown(a, i, lo, s)}

Shuffled(a, s) == FisherYates(a, Len(a) - 1, s)

(***************************************************************************)
(* State                                                                    *)
(***************************************************************************)
\* Largest number of calls made one after the other on the caller's grid.
MaxCalls == 2

VARIABLES
  op,             \* the exported function running: "none", "solve", "hasUniqueSolution", ...
  pc,             \* control point
  puzzle,         \* the caller's grid (argument of solve / hasUniqueSolution; the generator's puzzle)
  arg,            \* what the caller's grid held when the call was made
  mode,           \* which closures bitmaskBacktrack was called with
  grid,           \* the grid bitmaskBacktrack searches
  rowMask, colMask, boxMask,
  solutionCount, found,
  stack,          \* the active dfs calls that are inside their for loop
  retVal,         \* value returned by the dfs call that has just returned
  result,         \* value returned by the exported function
  calls,          \* the calls completed so far: what each was given, left and returned
  rng,            \* state of Math.random()
  difficulty, solvedGrid, positions, currentPosition,
  removedCells, attempts, tempValue,
  state,          \* value of the game store (gameStore.ts)
  timeouts        \* the setTimeout callbacks that are pending

solverVars == <<mode, grid, rowMask, colMask, boxMask, solutionCount, found, stack, retVal>>
genVars == <<difficulty, solvedGrid, positions, currentPosition, removedCells, attempts, tempValue>>
storeVars == <<state, timeouts>>

vars == <<op, pc, puzzle, arg, result, calls, rng, solverVars, genVars, storeVars>>

(***************************************************************************)
(* bitmaskBacktrack                                                         *)
(***************************************************************************)
\* mutant: hasUniqueSolution searching the caller's grid itself (no copy made)
SearchesCallersGridNoCopy(m) == m \in {"solve", "unique"}

\* solve hands the caller's grid itself to the search;
\* hasUniqueSolution hands it puzzle.map(row => [...row]);
\* fillGrid searches the generator's local grid.
SearchesCallersGrid(m) == m = "solve"

\* the caller's grid after the searched grid became g
CallersGrid(m, g) == IF SearchesCallersGrid(m) THEN g ELSE puzzle

\* line 99: the value passed to setCell on rollback
ResetValue(m, cell) == IF IsEmptyCell(m, cell) THEN Null ELSE 0

\* entry of bitmaskBacktrack up to the first dfs() call
EnterBacktrack(m, g) ==
  /\ mode' = m
  /\ grid' = g
  /\ rowMask' = InitRowMask(m, g)
  /\ colMask' = InitColMask(m, g)
  /\ boxMask' = InitBoxMask(m, g)
  /\ solutionCount' = 0
  /\ found' = FALSE
  /\ stack' = << >>
  /\ retVal' = FALSE
  /\ pc' = "call"

Top == stack[Len(stack)]

\* dfs(): the cap test, findMRVCell, the base case, the shuffle
DfsCall ==
  /\ pc = "call"
  /\ IF MaxSolutions(mode) # 0 /\ solutionCount >= MaxSolutions(mode)
       THEN /\ retVal' = FALSE
            /\ pc' = "ret"
            /\ UNCHANGED <<solutionCount, found, stack, rng>>
       ELSE LET mrv == FindMRVCell(mode, grid, rowMask, colMask, boxMask)
            IN IF mrv = NoCell
                 THEN /\ solutionCount' = solutionCount + 1
                      /\ found' = (found \/ OnSolution(mode))
                      /\ retVal' = OnSolution(mode)
                      /\ pc' = "ret"
                      /\ UNCHANGED <<stack, rng>>
                 ELSE \E sh \in Shuffled(mrv.legal, rng) :
                        /\ stack' = Append(stack, [row |-> mrv.row, col |-> mrv.col,
                                                   shuffled |-> sh.arr, k |-> 1])
                        /\ rng' = sh.rng
                        /\ pc' = "loop"
                        /\ UNCHANGED <<solutionCount, found, retVal>>
  /\ UNCHANGED <<op, puzzle, arg, result, calls, mode, grid, rowMask, colMask, boxMask, genVars, storeVars>>

\* one iteration head of "for (const val of shuffled)": place val, or leave the loop
DfsLoop ==
  /\ pc = "loop"
  /\ LET f == Top
         box == BoxOf(f.row, f.col)
     IN IF f.k > Len(f.shuffled)
          THEN /\ stack' = SubSeq(stack, 1, Len(stack) - 1)
               /\ retVal' = FALSE
               /\ pc' = "ret"
               /\ UNCHANGED <<grid, puzzle, rowMask, colMask, boxMask>>
          ELSE LET val == f.shuffled[f.k]
                   bit == Bit(val)
               IN IF HasBit(rowMask[f.row], bit) \/ HasBit(colMask[f.col], bit)
                       \/ HasBit(boxMask[box], bit)
                    THEN /\ stack' = [stack EXCEPT ![Len(stack)].k = f.k + 1]
                         /\ UNCHANGED <<grid, puzzle, rowMask, colMask, boxMask, retVal, pc>>
                    ELSE /\ grid' = SetCell(mode, grid, f.row, f.col, val)
                         /\ puzzle' = CallersGrid(mode, grid')
                         /\ rowMask' = [rowMask EXCEPT ![f.row] = OrBit(@, bit)]
                         /\ colMask' = [colMask EXCEPT ![f.col] = OrBit(@, bit)]
                         /\ boxMask' = [boxMask EXCEPT ![box] = OrBit(@, bit)]
                         /\ pc' = "call"
                         /\ UNCHANGED <<stack, retVal>>
  /\ UNCHANGED <<op, arg, result, calls, rng, mode, solutionCount, found, genVars, storeVars>>

\* mutant: after the rollback the loop stays at the candidate that failed
DfsReturnKeepsCandidate ==
  /\ pc = "ret"
  /\ stack # << >>
  /\ LET f == Top
         box == BoxOf(f.row, f.col)
         bit == Bit(f.shuffled[f.k])
     IN IF retVal
          THEN /\ stack' = SubSeq(stack, 1, Len(stack) - 1)
               /\ UNCHANGED <<grid, puzzle, rowMask, colMask, boxMask, pc>>
          ELSE /\ grid' = SetCell(mode, grid, f.row, f.col,
                                  ResetValue(mode, grid[f.row][f.col]))
               /\ puzzle' = CallersGrid(mode, grid')
               /\ rowMask' = [rowMask EXCEPT ![f.row] = AndNotBit(@, bit)]
               /\ colMask' = [colMask EXCEPT ![f.col] = AndNotBit(@, bit)]
               /\ boxMask' = [boxMask EXCEPT ![box] = AndNotBit(@, bit)]
               /\ stack' = stack
               /\ pc' = "loop"
  /\ UNCHANGED <<op, arg, result, calls, rng, mode, solutionCount, found, retVal, genVars, storeVars>>

\* mutant: the rollback leaves the bit in boxMask
DfsReturnKeepsBoxBit ==
  /\ pc = "ret"
  /\ stack # << >>
  /\ LET f == Top
         bit == Bit(f.shuffled[f.k])
     IN IF retVal
          THEN /\ stack' = SubSeq(stack, 1, Len(stack) - 1)
               /\ UNCHANGED <<grid, puzzle, rowMask, colMask, boxMask, pc>>
          ELSE /\ grid' = SetCell(mode, grid, f.row, f.col,
                                  ResetValue(mode, grid[f.row][f.col]))
               /\ puzzle' = CallersGrid(mode, grid')
               /\ rowMask' = [rowMask EXCEPT ![f.row] = AndNotBit(@, bit)]
               /\ colMask' = [colMask EXCEPT ![f.col] = AndNotBit(@, bit)]
               /\ boxMask' = boxMask
               /\ stack' = [stack EXCEPT ![Len(stack)].k = f.k + 1]
               /\ pc' = "loop"
  /\ UNCHANGED <<op, arg, result, calls, rng, mode, solutionCount, found, retVal, genVars, storeVars>>

\* "if (dfs()) return true;" and the rollback after a failed candidate
DfsReturn ==
  /\ pc = "ret"
  /\ stack # << >>
  /\ LET f == Top
         box == BoxOf(f.row, f.col)
         bit == Bit(f.shuffled[f.k])
     IN IF retVal
          THEN /\ stack' = SubSeq(stack, 1, Len(stack) - 1)
               /\ UNCHANGED <<grid, puzzle, rowMask, colMask, boxMask, pc>>
          ELSE /\ grid' = SetCell(mode, grid, f.row, f.col,
                                  ResetValue(mode, grid[f.row][f.col]))
               /\ puzzle' = CallersGrid(mode, grid')
               /\ rowMask' = [rowMask EXCEPT ![f.row] = AndNotBit(@, bit)]
               /\ colMask' = [colMask EXCEPT ![f.col] = AndNotBit(@, bit)]
               /\ boxMask' = [boxMask EXCEPT ![box] = AndNotBit(@, bit)]
               /\ stack' = [stack EXCEPT ![Len(stack)].k = f.k + 1]
               /\ pc' = "loop"
  /\ UNCHANGED <<op, arg, result, calls, rng, mode, solutionCount, found, retVal, genVars, storeVars>>

\* "return maxSolutions ? solutionCount : found" once the outermost dfs() is back
BacktrackDone == pc = "ret" /\ stack = << >>

(***************************************************************************)
(* engine.ts: solve and hasUniqueSolution                                   *)
(***************************************************************************)
\* what a completed call is remembered by
CallRecord == [op |-> op, arg |-> arg, left |-> puzzle, result |-> result', count |-> solutionCount]

CallSolve ==
  /\ pc = "idle"
  /\ Len(calls) < MaxCalls
  /\ op' = "solve"
  /\ arg' = puzzle
  /\ EnterBacktrack("solve", puzzle)
  /\ UNCHANGED <<puzzle, result, calls, rng, genVars, storeVars>>

\* return !!backtrack(grid, index, () => true)
SolveReturn ==
  /\ BacktrackDone
  /\ op = "solve"
  /\ result' = found
  /\ calls' = Append(calls, CallRecord)
  /\ pc' = "idle"
  /\ UNCHANGED <<op, puzzle, arg, rng, solverVars, genVars, storeVars>>

\* const gridCopy = puzzle.map(row => [...row])
CopyGrid(g) == [r \in Idx |-> [c \in Idx |-> g[r][c]]]

CallHasUniqueSolution ==
  /\ pc = "idle"
  /\ Len(calls) < MaxCalls
  /\ op' = "hasUniqueSolution"
  /\ arg' = puzzle
  /\ LET gridCopy == CopyGrid(puzzle)
     IN EnterBacktrack("unique", gridCopy)
  /\ UNCHANGED <<puzzle, result, calls, rng, genVars, storeVars>>

\* return count === 1
HasUniqueSolutionReturn ==
  /\ BacktrackDone
  /\ op = "hasUniqueSolution"
  /\ result' = (solutionCount = 1)
  /\ calls' = Append(calls, CallRecord)
  /\ pc' = "idle"
  /\ UNCHANGED <<op, puzzle, arg, rng, solverVars, genVars, storeVars>>

(***************************************************************************)
(* puzzleGenerator.ts: generateSolvedGrid and generateSudokuPuzzle         *)
(***************************************************************************)
Difficulties == {"easy", "medium", "hard", "expert", "master", "extreme"}

\* mutant: one removal too many asked for
getCellsToRemoveOffByOne(d) ==
  CASE d = "easy" -> 31
    [] d = "medium" -> 41
    [] d = "hard" -> 51
    [] d = "expert" -> 56
    [] d = "master" -> 61
    [] d = "extreme" -> 66

getCellsToRemove(d) ==
  CASE d = "easy" -> 30
    [] d = "medium" -> 40
    [] d = "hard" -> 50
    [] d = "expert" -> 55
    [] d = "master" -> 60
    [] d = "extreme" -> 65

maxAttempts == 10000

\* Largest number of removal attempts followed in one generateSudokuPuzzle call.
MaxDigAttempts == 54

\* Math.random() streams the generator is run with.
Seeds == {0, 547, 1317}

\* positions.push({ row, col }) in row-major order
AllPositions == [k \in 1 .. BOARD_SIZE |-> <<(k - 1) \div GRID_SIZE, (k - 1) % GRID_SIZE>>]

\* generateSudokuPuzzle(difficulty): generateSolvedGrid() starts fillGrid on a grid of zeros
CallGenerateSudokuPuzzle ==
  /\ pc = "idle"
  /\ calls = << >>
  /\ op' = "generateSudokuPuzzle"
  /\ \E d \in Difficulties : difficulty' = d
  /\ EnterBacktrack("fill", ZeroGrid)
  /\ UNCHANGED <<storeVars, puzzle, arg, result, calls, rng, solvedGrid, positions,
                 currentPosition, removedCells, attempts, tempValue>>

\* generateSolvedGrid returns the grid (fillGrid's boolean is dropped); the puzzle
\* is copied from it and the digging loop is set up
FillReturn ==
  /\ BacktrackDone
  /\ op = "generateSudokuPuzzle"
  /\ mode = "fill"
  /\ solvedGrid' = grid
  /\ puzzle' = CopyGrid(grid)
  /\ positions' = AllPositions
  /\ removedCells' = 0
  /\ attempts' = 0
  /\ currentPosition' = Len(AllPositions)
  /\ pc' = "dig"
  /\ UNCHANGED <<storeVars, op, arg, result, calls, rng, solverVars, difficulty, tempValue>>

\* while (removedCells < cellsToRemove && attempts < maxAttempts)
DigContinues ==
  removedCells < getCellsToRemove(difficulty) /\ attempts < maxAttempts

\* one loop iteration up to the hasUniqueSolution call, or a whole iteration on a
\* position that is already empty
DigStep ==
  /\ pc = "dig"
  /\ op = "generateSudokuPuzzle"
  /\ DigContinues
  /\ attempts < MaxDigAttempts
  /\ \E sh \in (IF currentPosition >= Len(positions)
                  THEN Shuffled(positions, rng)
                  ELSE {[arr |-> positions, rng |-> rng]}) :
       LET cur == IF currentPosition >= Len(positions) THEN 0 ELSE currentPosition
           row == sh.arr[cur + 1][1]
           col == sh.arr[cur + 1][2]
       IN /\ positions' = sh.arr
          /\ rng' = sh.rng
          /\ IF puzzle[row][col] # Null
               THEN /\ tempValue' = puzzle[row][col]
                    /\ puzzle' = [puzzle EXCEPT ![row][col] = Null]
                    /\ currentPosition' = cur
                    /\ EnterBacktrack("unique", CopyGrid(puzzle'))
               ELSE /\ currentPosition' = cur + 1
                    /\ UNCHANGED <<puzzle, tempValue, pc, solverVars>>
  /\ UNCHANGED <<storeVars, op, arg, result, calls, difficulty, solvedGrid, removedCells, attempts>>

\* mutant: a removal that is not kept is not undone
DigReturnNoRestore ==
  /\ BacktrackDone
  /\ op = "generateSudokuPuzzle"
  /\ mode = "unique"
  /\ removedCells' = (IF solutionCount = 1 THEN removedCells + 1 ELSE removedCells)
  /\ attempts' = attempts + 1
  /\ currentPosition' = currentPosition + 1
  /\ pc' = "dig"
  /\ UNCHANGED <<storeVars, op, puzzle, arg, result, calls, rng, solverVars, difficulty, solvedGrid,
                 positions, tempValue>>

\* hasUniqueSolution(puzzle) is back: keep the hole or restore tempValue
DigReturn ==
  /\ BacktrackDone
  /\ op = "generateSudokuPuzzle"
  /\ mode = "unique"
  /\ LET row == positions[currentPosition + 1][1]
         col == positions[currentPosition + 1][2]
     IN IF solutionCount = 1
          THEN /\ removedCells' = removedCells + 1
               /\ UNCHANGED puzzle
          ELSE /\ puzzle' = [puzzle EXCEPT ![row][col] = tempValue]
               /\ UNCHANGED removedCells
  /\ attempts' = attempts + 1
  /\ currentPosition' = currentPosition + 1
  /\ pc' = "dig"
  /\ UNCHANGED <<storeVars, op, arg, result, calls, rng, solverVars, difficulty, solvedGrid,
                 positions, tempValue>>

\* return puzzle
GenerateReturn ==
  /\ pc = "dig"
  /\ op = "generateSudokuPuzzle"
  /\ ~DigContinues
  /\ result' = puzzle
  /\ calls' = Append(calls, [op |-> op, arg |-> difficulty, left |-> puzzle,
                             result |-> puzzle, count |-> removedCells])
  /\ pc' = "idle"
  /\ UNCHANGED <<op, puzzle, arg, rng, solverVars, genVars, storeVars>>

\* generateSolvedGrid() called on its own
CallGenerateSolvedGrid ==
  /\ pc = "idle"
  /\ Len(calls) < MaxCalls
  /\ op' = "generateSolvedGrid"
  /\ EnterBacktrack("fill", ZeroGrid)
  /\ UNCHANGED <<puzzle, arg, result, calls, rng, genVars, storeVars>>

\* fillGrid(grid); return grid
GenerateSolvedGridReturn ==
  /\ BacktrackDone
  /\ op = "generateSolvedGrid"
  /\ result' = grid
  /\ calls' = Append(calls, [op |-> op, arg |-> ZeroGrid, left |-> grid,
                             result |-> grid, count |-> solutionCount])
  /\ pc' = "idle"
  /\ UNCHANGED <<op, puzzle, arg, rng, solverVars, genVars, storeVars>>

(***************************************************************************)
(* Grids handed to solve and hasUniqueSolution                             *)
(***************************************************************************)
\* Largest number of cells cleared in an input grid.
MaxHoles == 15

\* Cells cleared one after the other, as <<row, col>>.
HolePatternA ==
  << <<1, 3>>, <<1, 4>>, <<3, 3>>, <<3, 5>>, <<5, 3>>, <<5, 4>>, <<6, 2>>, <<6, 5>>,
     <<7, 2>>, <<7, 4>>, <<7, 5>>, <<7, 6>>, <<8, 3>>, <<8, 5>>, <<8, 6>>,
     <<0, 0>>, <<4, 4>> >>

HolePatternB ==
  << <<1, 1>>, <<1, 8>>, <<2, 2>>, <<2, 8>>, <<3, 0>>, <<3, 3>>, <<4, 2>>, <<4, 3>>,
     <<4, 6>>, <<5, 0>>, <<5, 6>>, <<5, 8>>, <<7, 1>>, <<7, 2>>,
     <<0, 4>>, <<8, 8>>, <<6, 6>> >>

HolePatterns == {HolePatternA, HolePatternB}

\* A given replaced by another digit, as <<row, col, value>>; << >> for none.
GivenOverrides == {<< >>, <<5, 2, 6>>}

RECURSIVE ClearCells(_, _, _)
\* g with the first k cells of pattern p set to null
ClearCells(g, p, k) ==
  IF k = 0 THEN g ELSE ClearCells([g EXCEPT ![p[k][1]][p[k][2]] = Null], p, k - 1)

WithOverride(g, o) == IF o = << >> THEN g ELSE [g EXCEPT ![o[1]][o[2]] = o[3]]

InputGrids ==
  { ClearCells(WithOverride(solvedGridFixture, o), p, k) :
      o \in GivenOverrides, p \in HolePatterns, k \in 0 .. MaxHoles }

(***************************************************************************)
(* The game store before a game is started (gameStore.ts)                   *)
(***************************************************************************)
\* A cell of the store's grid.  isSelected and isHighlighted only steer the
\* display and are left out.
createInitialCell == [value |-> Null, notes |-> {}, isInitial |-> FALSE, isFlashing |-> FALSE]

createInitialGrid == [r \in Idx |-> [c \in Idx |-> createInitialCell]]

\* writable({...}) without the difficulty and the timer fields
createGameStore ==
  [grid |-> createInitialGrid,
   selectedCell |-> [row |-> 0, col |-> 0],
   isPencilMode |-> FALSE,
   isGameStarted |-> FALSE,
   undoStack |-> << >>,
   redoStack |-> << >>,
   initialGrid |-> << >>,
   isComplete |-> FALSE,
   flashTimeout |-> Null,
   isAuthoring |-> FALSE]

(***************************************************************************)
(* Specification of the two engine entry points                             *)
(***************************************************************************)
Init ==
  /\ op = "none"
  /\ pc = "idle"
  /\ puzzle \in InputGrids
  /\ arg = puzzle
  /\ mode = "solve"
  /\ grid = puzzle
  /\ rowMask = [i \in Idx |-> 0]
  /\ colMask = [i \in Idx |-> 0]
  /\ boxMask = [i \in Idx |-> 0]
  /\ solutionCount = 0
  /\ found = FALSE
  /\ stack = << >>
  /\ retVal = FALSE
  /\ result = FALSE
  /\ calls = << >>
  /\ rng = Free
  /\ difficulty = "easy"
  /\ solvedGrid = ZeroGrid
  /\ positions = << >>
  /\ currentPosition = 0
  /\ removedCells = 0
  /\ attempts = 0
  /\ tempValue = Null
  /\ state = createGameStore
  /\ timeouts = {}

Next ==
  \/ CallSolve
  \/ CallHasUniqueSolution
  \/ DfsCall
  \/ DfsLoop
  \/ DfsReturn
  \/ SolveReturn
  \/ HasUniqueSolutionReturn

Spec == Init /\ [][Next]_vars

\* solve and hasUniqueSolution run to completion once called: the steps of a
\* call are not suspended (the engine is synchronous)
SearchFairSpec ==
  Spec /\ WF_vars(DfsCall \/ DfsLoop \/ DfsReturn \/ SolveReturn \/ HasUniqueSolutionReturn)

(***************************************************************************)
(* Specification of the generator: generateSudokuPuzzle for a difficulty,   *)
(* then hasUniqueSolution on what it returned, on a pseudo-random stream    *)
(***************************************************************************)
GenInit ==
  /\ op = "none"
  /\ pc = "idle"
  /\ puzzle = emptyGrid
  /\ arg = puzzle
  /\ mode = "fill"
  /\ grid = ZeroGrid
  /\ rowMask = [i \in Idx |-> 0]
  /\ colMask = [i \in Idx |-> 0]
  /\ boxMask = [i \in Idx |-> 0]
  /\ solutionCount = 0
  /\ found = FALSE
  /\ stack = << >>
  /\ retVal = FALSE
  /\ result = FALSE
  /\ calls = << >>
  /\ rng \in Seeds
  /\ difficulty = "easy"
  /\ solvedGrid = ZeroGrid
  /\ positions = << >>
  /\ currentPosition = 0
  /\ removedCells = 0
  /\ attempts = 0
  /\ tempValue = Null
  /\ state = createGameStore
  /\ timeouts = {}

GenNext ==
  \/ CallGenerateSudokuPuzzle
  \/ DfsCall
  \/ DfsLoop
  \/ DfsReturn
  \/ FillReturn
  \/ DigStep
  \/ DigReturn
  \/ GenerateReturn
  \/ CallHasUniqueSolution
  \/ HasUniqueSolutionReturn

GenSpec == GenInit /\ [][GenNext]_vars

(***************************************************************************)
(* Specification of generateSolvedGrid on its own, on more streams          *)
(***************************************************************************)
\* Largest seed of the streams generateSolvedGrid is run with.
MaxFillSeed == 19

FillInit ==
  /\ op = "none"
  /\ pc = "idle"
  /\ puzzle = emptyGrid
  /\ arg = puzzle
  /\ mode = "fill"
  /\ grid = ZeroGrid
  /\ rowMask = [i \in Idx |-> 0]
  /\ colMask = [i \in Idx |-> 0]
  /\ boxMask = [i \in Idx |-> 0]
  /\ solutionCount = 0
  /\ found = FALSE
  /\ stack = << >>
  /\ retVal = FALSE
  /\ result = FALSE
  /\ calls = << >>
  /\ \E k \in 0 .. MaxFillSeed : rng = (k * 3120) % RngModulus
  /\ difficulty = "easy"
  /\ solvedGrid = ZeroGrid
  /\ positions = << >>
  /\ currentPosition = 0
  /\ removedCells = 0
  /\ attempts = 0
  /\ tempValue = Null
  /\ state = createGameStore
  /\ timeouts = {}

FillNext ==
  \/ CallGenerateSolvedGrid
  \/ DfsCall
  \/ DfsLoop
  \/ DfsReturn
  \/ GenerateSolvedGridReturn

FillSpec == FillInit /\ [][FillNext]_vars

(***************************************************************************)
(* Specification of hasUniqueSolution before and after a caller takes one   *)
(* given out of the puzzle, as the generator's digging loop does            *)
(***************************************************************************)
\* the cells a given is taken from
RemovableCells ==
  UNION {{<<p[k][1], p[k][2]>> : k \in DOMAIN p} : p \in HolePatterns}

\* puzzle[row][col] = null on a puzzle hasUniqueSolution has just counted one
\* solution for
RemoveGiven ==
  /\ pc = "idle"
  /\ calls # << >>
  /\ Len(calls) < MaxCalls
  /\ calls[Len(calls)].op = "hasUniqueSolution"
  /\ calls[Len(calls)].count = 1
  /\ puzzle = calls[Len(calls)].arg
  /\ \E rc \in RemovableCells :
       /\ puzzle[rc[1]][rc[2]] # Null
       /\ puzzle' = [puzzle EXCEPT ![rc[1]][rc[2]] = Null]
  /\ UNCHANGED <<op, pc, arg, result, calls, rng, solverVars, genVars, storeVars>>

RemovalNext ==
  \/ CallHasUniqueSolution
  \/ DfsCall
  \/ DfsLoop
  \/ DfsReturn
  \/ HasUniqueSolutionReturn
  \/ RemoveGiven

RemovalSpec == Init /\ [][RemovalNext]_vars

(***************************************************************************)
(* coord.ts: class Coord                                                    *)
(***************************************************************************)
\* what a call does: it returns a value or throws
RangeError == [threw |-> TRUE, value |-> "RangeError"]
Returns(v) == [threw |-> FALSE, value |-> v]

\* mutant: the upper bounds tested with > instead of >=
CoordOffByOne(row, col) ==
  IF row < 0 \/ row > GRID_SIZE THEN RangeError
  ELSE IF col < 0 \/ col > GRID_SIZE THEN RangeError
  ELSE Returns([row |-> row, col |-> col])

\* new Coord(row, col)
Coord(row, col) ==
  IF row < 0 \/ row >= GRID_SIZE THEN RangeError
  ELSE IF col < 0 \/ col >= GRID_SIZE THEN RangeError
  ELSE Returns([row |-> row, col |-> col])

\* mutant: row and column taken the other way round
fromIndexSwapped(index) ==
  IF index < 0 \/ index >= GRID_SIZE * GRID_SIZE THEN RangeError
  ELSE Coord(index % GRID_SIZE, index \div GRID_SIZE)

\* Coord.fromIndex(index)
fromIndex(index) ==
  IF index < 0 \/ index >= GRID_SIZE * GRID_SIZE THEN RangeError
  ELSE Coord(index \div GRID_SIZE, index % GRID_SIZE)

\* get index()
index(c) == c.row * GRID_SIZE + c.col

\* mutant: the quotient not scaled back by BOX_SIZE
boxOriginNotScaled(c) == Coord(c.row \div BOX_SIZE, c.col \div BOX_SIZE)

\* get boxOrigin()
boxOrigin(c) ==
  Coord((c.row \div BOX_SIZE) * BOX_SIZE, (c.col \div BOX_SIZE) * BOX_SIZE)

withRow(c, row) == Coord(row, c.col)
withCol(c, col) == Coord(c.row, col)

\* enum Group
GroupNames == {"row", "column", "box"}

\* the (row, col) pairs the loops of coordsFor visit, in order; origin is the
\* box origin of c
GroupCells(c, group, origin) ==
  CASE group = "row" -> [k \in 1 .. GRID_SIZE |-> <<c.row, k - 1>>]
    [] group = "column" -> [k \in 1 .. GRID_SIZE |-> <<k - 1, c.col>>]
    [] OTHER -> [k \in 1 .. GRID_SIZE |->
                   <<origin.row + ((k - 1) \div BOX_SIZE),
                     origin.col + ((k - 1) % BOX_SIZE)>>]

\* coordsFor(group, skips)
coordsFor(c, group, skips) ==
  LET skipIdx == {index(skips[k]) : k \in DOMAIN skips}
      origin == boxOrigin(c)
      visited == GroupCells(c, group, origin.value)
      kept == SelectSeq(visited, LAMBDA x : (x[1] * GRID_SIZE + x[2]) \notin skipIdx)
      made == [k \in DOMAIN kept |-> Coord(kept[k][1], kept[k][2])]
  IN IF group = "box" /\ origin.threw THEN RangeError
     ELSE IF \E k \in DOMAIN made : made[k].threw THEN RangeError
     ELSE Returns([k \in DOMAIN made |-> made[k].value])

\* the coordinates that exist
Coords == {[row |-> r, col |-> c] : r \in Idx, c \in Idx}

(***************************************************************************)
(* engine.ts: isValidPlacement; puzzleGenerator.ts: stringToGrid            *)
(***************************************************************************)
\* mutant: the row loop without "i !== col"
isValidPlacementCountsSelf(g, pos, value) ==
  LET origin == boxOrigin(pos).value
  IN /\ ~\E i \in Idx : \/ g[pos.row][i] = value
                        \/ (i # pos.row /\ g[i][pos.col] = value)
     /\ ~\E r \in origin.row .. (origin.row + BOX_SIZE - 1),
            c \in origin.col .. (origin.col + BOX_SIZE - 1) :
          g[r][c] = value /\ (r # pos.row \/ c # pos.col)

\* isValidPlacement(grid, pos, value): false as soon as one of the two loops
\* meets value in another cell, true otherwise
isValidPlacement(g, pos, value) ==
  LET origin == boxOrigin(pos).value
  IN /\ ~\E i \in Idx : \/ (i # pos.col /\ g[pos.row][i] = value)
                        \/ (i # pos.row /\ g[i][pos.col] = value)
     /\ ~\E r \in origin.row .. (origin.row + BOX_SIZE - 1),
            c \in origin.col .. (origin.col + BOX_SIZE - 1) :
          g[r][c] = value /\ (r # pos.row \/ c # pos.col)

\* the characters '0'..'9'
DigitChars == <<"0", "1", "2", "3", "4", "5", "6", "7", "8", "9">>

\* parseInt of one digit character
parseInt(ch) == CHOOSE d \in 0 .. 9 : DigitChars[d + 1] = ch

\* mutant: '0' parsed and stored like the other characters
stringToGridKeepsZero(str) ==
  [r \in Idx |-> [c \in Idx |->
     LET i == CHOOSE j \in 0 .. (BOARD_SIZE - 1) :
                fromIndex(j) = Returns([row |-> r, col |-> c])
     IN parseInt(str[i + 1])]]

\* stringToGrid(str): cell (r, c) is written by the one iteration i whose
\* Coord.fromIndex(i) is (r, c), unless str[i] is '0'
stringToGrid(str) ==
  [r \in Idx |-> [c \in Idx |->
     LET i == CHOOSE j \in 0 .. (BOARD_SIZE - 1) :
                fromIndex(j) = Returns([row |-> r, col |-> c])
     IN IF str[i + 1] = "0" THEN Null ELSE parseInt(str[i + 1])]]

(***************************************************************************)
(* solverStrategies.ts: notes on a grid of cells [value, notes]             *)
(***************************************************************************)
\* mutant: a number the cell already has as a note is refused, as if the
\* note were toggled
CanPlaceTogglesNote(cells, row, col, num) ==
  LET boxRow == (row \div BOX_SIZE) * BOX_SIZE
      boxCol == (col \div BOX_SIZE) * BOX_SIZE
  IN /\ num \notin cells[row][col].notes
     /\ ~\E c \in Idx : c # col /\ cells[row][c].value = num
     /\ ~\E r \in Idx : r # row /\ cells[r][col].value = num
     /\ ~\E r \in boxRow .. (boxRow + BOX_SIZE - 1), c \in boxCol .. (boxCol + BOX_SIZE - 1) :
          (r # row \/ c # col) /\ cells[r][c].value = num

\* canPlace at the end of the three checks of applyAutoNotes: no other cell of
\* the row, of the column, of the box has num as its value
CanPlace(cells, row, col, num) ==
  LET boxRow == (row \div BOX_SIZE) * BOX_SIZE
      boxCol == (col \div BOX_SIZE) * BOX_SIZE
  IN /\ ~\E c \in Idx : c # col /\ cells[row][c].value = num
     /\ ~\E r \in Idx : r # row /\ cells[r][col].value = num
     /\ ~\E r \in boxRow .. (boxRow + BOX_SIZE - 1), c \in boxCol .. (boxCol + BOX_SIZE - 1) :
          (r # row \/ c # col) /\ cells[r][c].value = num

\* mutant: the notes are not cleared before the numbers are added
applyAutoNotesKeepsOld(cells) ==
  [row \in Idx |-> [col \in Idx |->
     IF cells[row][col].value = Null
       THEN [cells[row][col] EXCEPT
               !.notes = @ \cup {num \in 1 .. GRID_SIZE : CanPlace(cells, row, col, num)}]
       ELSE cells[row][col]]]

\* applyAutoNotes(grid): the grid it leaves.  Only notes are written and only
\* values are read, so the cells do not depend on the order of the two loops.
applyAutoNotes(cells) ==
  [row \in Idx |-> [col \in Idx |->
     IF cells[row][col].value = Null
       THEN [cells[row][col] EXCEPT
               !.notes = {num \in 1 .. GRID_SIZE : CanPlace(cells, row, col, num)}]
       ELSE cells[row][col]]]

\* the cells getClues visits: the other cells of the row, of the column, or
\* of the box counted from its origin
CluesCells(pos, direction) ==
  LET box == boxOrigin(pos).value
  IN CASE direction = "row" -> {[row |-> pos.row, col |-> i] : i \in Idx \ {pos.col}}
       [] direction = "column" -> {[row |-> i, col |-> pos.col] : i \in Idx \ {pos.row}}
       [] direction = "box" ->
            {[row |-> box.row + (i \div BOX_SIZE), col |-> box.col + (i % BOX_SIZE)] : i \in Idx}
              \ {pos}

\* getClues(grid, pos, direction): the value of each filled cell visited and
\* the notes of each empty one
getClues(cells, pos, direction) ==
  UNION { IF cells[x.row][x.col].value # Null
            THEN {cells[x.row][x.col].value}
            ELSE cells[x.row][x.col].notes : x \in CluesCells(pos, direction) }

\* applyUniqueNotes(grid, pos, group): what it returns and the grid it leaves
applyUniqueNotes(cells, pos, group) ==
  LET uniqueNotes == cells[pos.row][pos.col].notes \ getClues(cells, pos, group)
  IN IF Cardinality(uniqueNotes) = 1
       THEN [ret |-> TRUE, grid |-> [cells EXCEPT ![pos.row][pos.col].notes = uniqueNotes]]
       ELSE [ret |-> FALSE, grid |-> cells]

\* mutant: only the row is tried
processNakedSingleRowOnly(cells, pos) ==
  IF cells[pos.row][pos.col].value # Null THEN [ret |-> FALSE, grid |-> cells]
  ELSE IF Cardinality(cells[pos.row][pos.col].notes) = 1 THEN [ret |-> TRUE, grid |-> cells]
  ELSE applyUniqueNotes(cells, pos, "row")

\* processNakedSingle(grid, pos): what it returns and the grid it leaves; ||
\* stops at the first group that answers true
processNakedSingle(cells, pos) ==
  IF cells[pos.row][pos.col].value # Null THEN [ret |-> FALSE, grid |-> cells]
  ELSE IF Cardinality(cells[pos.row][pos.col].notes) = 1 THEN [ret |-> TRUE, grid |-> cells]
  ELSE LET inRow == applyUniqueNotes(cells, pos, "row")
       IN IF inRow.ret THEN inRow
          ELSE LET inColumn == applyUniqueNotes(inRow.grid, pos, "column")
               IN IF inColumn.ret THEN inColumn
                  ELSE applyUniqueNotes(inColumn.grid, pos, "box")

\* the least number of a non-empty set: what a loop counting upwards meets first
Lowest(S) == CHOOSE x \in S : \A y \in S : x <= y

\* null where a Coord is expected
NoCoord == [row |-> Null, col |-> Null]

\* notes.size === 2 and notes.difference(anchor notes).size === 0
PairsWith(cells, pos, r, c) ==
  /\ Cardinality(cells[r][c].notes) = 2
  /\ cells[r][c].notes \ cells[pos.row][pos.col].notes = {}

\* mutant: the test of the size of the notes left out
getNakedPairInRowNoSizeCheck(cells, pos) ==
  LET hits == {c \in (pos.col + 1) .. (GRID_SIZE - 1) :
                 cells[pos.row][c].notes \ cells[pos.row][pos.col].notes = {}}
  IN IF hits = {} THEN Returns(NoCoord) ELSE withCol(pos, Lowest(hits))

\* getNakedPairInRow(grid, pos)
getNakedPairInRow(cells, pos) ==
  LET hits == {c \in (pos.col + 1) .. (GRID_SIZE - 1) : PairsWith(cells, pos, pos.row, c)}
  IN IF hits = {} THEN Returns(NoCoord) ELSE withCol(pos, Lowest(hits))

\* getNakedPairInColumn(grid, pos)
getNakedPairInColumn(cells, pos) ==
  LET hits == {r \in (pos.row + 1) .. (GRID_SIZE - 1) : PairsWith(cells, pos, r, pos.col)}
  IN IF hits = {} THEN Returns(NoCoord) ELSE withRow(pos, Lowest(hits))

\* getNakedPairInBox(grid, pos): the box is walked row by row from its origin,
\* the cells up to pos are skipped; a hit is numbered r * GRID_SIZE + c
getNakedPairInBox(cells, pos) ==
  LET box == boxOrigin(pos).value
      hits == {r * GRID_SIZE + c :
                 <<r, c>> \in {rc \in (box.row .. (box.row + BOX_SIZE - 1))
                                        \X (box.col .. (box.col + BOX_SIZE - 1)) :
                                 /\ ~((rc[1] = pos.row /\ rc[2] <= pos.col) \/ rc[1] < pos.row)
                                 /\ PairsWith(cells, pos, rc[1], rc[2])}}
  IN IF hits = {} THEN Returns(NoCoord)
     ELSE Coord(Lowest(hits) \div GRID_SIZE, Lowest(hits) % GRID_SIZE)

\* the variant of a group
getNakedPairIn(group, cells, pos) ==
  CASE group = "row" -> getNakedPairInRow(cells, pos)
    [] group = "column" -> getNakedPairInColumn(cells, pos)
    [] group = "box" -> getNakedPairInBox(cells, pos)

RECURSIVE RemoveFrom(_, _, _, _)
\* removeNotesFromCells after the first k targets: the count and the grid
RemoveFrom(cells, targets, notes, k) ==
  IF k = 0 THEN [removed |-> 0, grid |-> cells]
  ELSE Once(RemoveFrom(cells, targets, notes, k - 1),
            LAMBDA prev :
              IF prev.grid[targets[k].row][targets[k].col].value # Null THEN prev
              ELSE [removed |-> prev.removed
                                  + Cardinality(prev.grid[targets[k].row][targets[k].col].notes
                                                  \cap notes),
                    grid |-> [prev.grid EXCEPT ![targets[k].row][targets[k].col].notes
                                                 = @ \ notes]])

\* mutant: only the lowest note of the set is deleted
removeNotesFromCellsOneNote(cells, targets, notes) ==
  Once(targets, LAMBDA ts :
    RemoveFrom(cells, ts,
               IF notes = {} THEN {} ELSE {CHOOSE n \in notes : \A m \in notes : n <= m},
               Len(ts)))

\* mutant: the cells that lost a note are counted, not the notes
removeNotesFromCellsCountsCells(cells, targets, notes) ==
  Once(targets, LAMBDA ts :
    Once(RemoveFrom(cells, ts, notes, Len(ts)), LAMBDA done :
      [removed |-> Cardinality({k \in DOMAIN ts :
                                  done.grid[ts[k].row][ts[k].col]
                                    # cells[ts[k].row][ts[k].col]}),
       grid |-> done.grid]))

\* removeNotesFromCells(grid, targets, notes): what it returns and the grid it
\* leaves
removeNotesFromCells(cells, targets, notes) ==
  Once(targets, LAMBDA ts : RemoveFrom(cells, ts, notes, Len(ts)))

removeNotesInRow(cells, anchor, skips, notes) ==
  removeNotesFromCells(cells, coordsFor(anchor, "row", skips).value, notes)

removeNotesInColumn(cells, anchor, skips, notes) ==
  removeNotesFromCells(cells, coordsFor(anchor, "column", skips).value, notes)

removeNotesInBox(cells, anchor, skips, notes) ==
  removeNotesFromCells(cells, coordsFor(anchor, "box", skips).value, notes)

\* the variant of a group
removeNotesIn(group, cells, anchor, skips, notes) ==
  CASE group = "row" -> removeNotesInRow(cells, anchor, skips, notes)
    [] group = "column" -> removeNotesInColumn(cells, anchor, skips, notes)
    [] group = "box" -> removeNotesInBox(cells, anchor, skips, notes)

\* areCellsInSameBox(cells)
areCellsInSameBox(cs) ==
  IF Len(cs) < 2 THEN TRUE
  ELSE \A k \in DOMAIN cs : boxOrigin(cs[k]) = boxOrigin(cs[1])

\* one of the first two steps of processNakedPairs: the search in the row or
\* column, the removal there and, when the two cells share a box, in the box
PairStep(group, step, pos, notes) ==
  Once(getNakedPairIn(group, step.grid, pos).value, LAMBDA pair :
    IF pair = NoCoord THEN [removed |-> step.removed, grid |-> step.grid, pair |-> NoCoord]
    ELSE Once(removeNotesIn(group, step.grid, pos, <<pos, pair>>, notes), LAMBDA inGroup :
           IF areCellsInSameBox(<<pos, pair>>)
             THEN Once(removeNotesInBox(inGroup.grid, pos, <<pos, pair>>, notes),
                       LAMBDA inBox :
                         [removed |-> step.removed + inGroup.removed + inBox.removed,
                          grid |-> inBox.grid, pair |-> pair])
             ELSE [removed |-> step.removed + inGroup.removed,
                   grid |-> inGroup.grid, pair |-> pair]))

\* the third step: the search in the box and the removal there
BoxStep(step, pos, notes) ==
  Once(getNakedPairInBox(step.grid, pos).value, LAMBDA pair :
    IF pair = NoCoord THEN [removed |-> step.removed, grid |-> step.grid, pair |-> NoCoord]
    ELSE Once(removeNotesInBox(step.grid, pos, <<pos, pair>>, notes), LAMBDA inBox :
           [removed |-> step.removed + inBox.removed, grid |-> inBox.grid, pair |-> pair]))

\* processNakedPairs(grid, pos): found, applied, the partners it logs and the
\* grid it leaves
processNakedPairs(cells, pos) ==
  LET cell == cells[pos.row][pos.col]
      none == [row |-> NoCoord, column |-> NoCoord, box |-> NoCoord]
  IN IF cell.value # Null \/ Cardinality(cell.notes) # 2
       THEN [found |-> FALSE, applied |-> FALSE, logged |-> none, grid |-> cells]
       ELSE Once(PairStep("row", [removed |-> 0, grid |-> cells], pos, cell.notes),
              LAMBDA inRow :
                Once(PairStep("column", inRow, pos, cell.notes), LAMBDA inColumn :
                  Once(BoxStep(inColumn, pos, cell.notes), LAMBDA inBox :
                    [found |-> inRow.pair # NoCoord \/ inColumn.pair # NoCoord
                                 \/ inBox.pair # NoCoord,
                     applied |-> inBox.removed > 0,
                     logged |-> [row |-> inRow.pair, column |-> inColumn.pair,
                                 box |-> inBox.pair],
                     grid |-> inBox.grid])))

(***************************************************************************)
(* Specification of the functions that only compute: each step applies one  *)
(* to inputs drawn from bounded sets; op, arg and result record the call     *)
(***************************************************************************)
\* How far outside 0..8 (0..80 for an index) the integer inputs reach.
MaxOutside == 3

\* Longest skips array handed to coordsFor.
MaxSkips == 2

RowInputs == (0 - MaxOutside) .. (GRID_SIZE - 1 + MaxOutside)
IndexInputs == (0 - MaxOutside) .. (GRID_SIZE * GRID_SIZE - 1 + MaxOutside)

\* the coordinates the skips are taken from
SkipCoords ==
  {[row |-> 0, col |-> 0], [row |-> 3, col |-> 4], [row |-> 4, col |-> 4],
   [row |-> 4, col |-> 7], [row |-> 5, col |-> 3], [row |-> 8, col |-> 4]}

SkipLists == UNION {[1 .. n -> SkipCoords] : n \in 0 .. MaxSkips}

\* the one call of a behaviour: made from the initial state
Applied(f, a, r) ==
  /\ op = "none"
  /\ op' = f
  /\ arg' = a
  /\ result' = r
  /\ UNCHANGED <<pc, puzzle, calls, rng, solverVars, genVars, storeVars>>

CallFromIndex ==
  /\ op = "none"
  /\ \E i \in IndexInputs : Applied("Coord.fromIndex", <<i>>, fromIndex(i))

CallNewCoord ==
  /\ op = "none"
  /\ \E row \in RowInputs, col \in RowInputs : Applied("new Coord", <<row, col>>, Coord(row, col))

CallWithRow ==
  /\ op = "none"
  /\ \E c \in Coords, row \in RowInputs : Applied("withRow", <<c, row>>, withRow(c, row))

CallWithCol ==
  /\ op = "none"
  /\ \E c \in Coords, col \in RowInputs : Applied("withCol", <<c, col>>, withCol(c, col))

CallCoordsFor ==
  /\ op = "none"
  /\ \E c \in Coords, group \in GroupNames, skips \in SkipLists :
       Applied("coordsFor", <<c, group, skips>>, coordsFor(c, group, skips))

\* the test's invalidGrid: emptyGrid with a 1 at (0, 1)
invalidGrid == [emptyGrid EXCEPT ![0][1] = 1]

\* grids handed to isValidPlacement: the empty board, the test's invalidGrid,
\* the solved board and a board with holes, each of the last two also with a
\* repeated given
PlacementGrids ==
  {emptyGrid, invalidGrid}
    \cup { ClearCells(WithOverride(solvedGridFixture, o), HolePatternA, k) :
             o \in GivenOverrides, k \in {0, Len(HolePatternA)} }

\* isValidPlacement(grid, pos, value); puzzle is the caller's grid, which the
\* function only reads
CallIsValidPlacement ==
  /\ op = "none"
  /\ \E g \in PlacementGrids, pos \in Coords, value \in Digits :
       /\ op' = "isValidPlacement"
       /\ arg' = <<g, pos, value>>
       /\ puzzle' = g
       /\ result' = Returns(isValidPlacement(g, pos, value))
       /\ UNCHANGED <<pc, calls, rng, solverVars, genVars, storeVars>>

\* the 81-character string of grid g with every digit advanced by shift
\* (modulo 10), empty cells counting as 0
ShiftedString(g, shift) ==
  [k \in 1 .. BOARD_SIZE |->
     LET v == g[(k - 1) \div GRID_SIZE][(k - 1) % GRID_SIZE]
     IN DigitChars[(((IF v = Null THEN 0 ELSE v) + shift) % 10) + 1]]

\* strings handed to stringToGrid
InputStrings ==
  { ShiftedString(ClearCells(solvedGridFixture, p, Len(p)), shift) :
      p \in HolePatterns, shift \in 0 .. 9 }
    \cup {ShiftedString(emptyGrid, 0)}

CallStringToGrid ==
  /\ op = "none"
  /\ \E str \in InputStrings : Applied("stringToGrid", <<str>>, Returns(stringToGrid(str)))

\* the grid of cells with the values of g and the notes of notesOf
CellsOf(g, notesOf) ==
  [r \in Idx |-> [c \in Idx |-> [value |-> g[r][c], notes |-> notesOf[r][c]]]]

\* notes before a call: none, every digit, or two digits that vary with the cell
NoNotes == [r \in Idx |-> [c \in Idx |-> {}]]
AllNotes == [r \in Idx |-> [c \in Idx |-> Digits]]
StripeNotes ==
  [r \in Idx |-> [c \in Idx |-> {((r + c) % GRID_SIZE) + 1, ((2 * r + c + 4) % GRID_SIZE) + 1}]]

\* grids handed to applyAutoNotes
AutoNotesGrids ==
  {CellsOf(g, n) : g \in PlacementGrids, n \in {NoNotes, AllNotes, StripeNotes}}

\* applyAutoNotes(grid) on a fresh grid, or once more on the grid the previous
\* application left in puzzle
CallApplyAutoNotes ==
  /\ op \in {"none", "applyAutoNotes"}
  /\ Len(calls) < MaxCalls
  /\ \E g \in (IF op = "none" THEN AutoNotesGrids ELSE {puzzle}) :
       /\ op' = "applyAutoNotes"
       /\ arg' = <<g>>
       /\ puzzle' = applyAutoNotes(g)
       /\ result' = Returns(Null)
       /\ calls' = Append(calls, [op |-> "applyAutoNotes", arg |-> g, left |-> puzzle',
                                  result |-> result', count |-> 0])
  /\ UNCHANGED <<pc, rng, solverVars, genVars, storeVars>>

\* notes written by hand on the empty board: (0, 0) has one note of its own in
\* its column but two in its row, (4, 4) one of its own in its box only,
\* (8, 8) two of its own everywhere
HandNotes ==
  [NoNotes EXCEPT ![0][0] = {1, 2, 3}, ![0][1] = {3}, ![1][0] = {2, 3},
                  ![4][4] = {1, 2}, ![4][8] = {1, 2}, ![8][4] = {1, 2}, ![3][3] = {2},
                  ![8][8] = {5, 6}]

\* grids handed to processNakedSingle and the naked-pair searches; a filled
\* cell has no notes
NakedSingleGrids ==
  { applyAutoNotes(CellsOf(ClearCells(solvedGridFixture, p, Len(p) \div h), NoNotes)) :
      p \in HolePatterns, h \in {1, 2} }
    \cup {CellsOf(emptyGrid, StripeNotes), CellsOf(emptyGrid, HandNotes)}

\* a puzzle whose cells all hold two notes, the filled ones too, as after
\* pencil entries on filled cells
PencilledGrid ==
  CellsOf(ClearCells(solvedGridFixture, HolePatternA, Len(HolePatternA)), StripeNotes)

\* processNakedSingle(grid, pos); puzzle is the caller's grid after the call
CallProcessNakedSingle ==
  /\ op = "none"
  /\ \E g \in NakedSingleGrids \cup {PencilledGrid}, pos \in Coords :
       /\ op' = "processNakedSingle"
       /\ arg' = <<g, pos>>
       /\ puzzle' = processNakedSingle(g, pos).grid
       /\ result' = Returns(processNakedSingle(g, pos).ret)
       /\ UNCHANGED <<pc, calls, rng, solverVars, genVars, storeVars>>

\* notes written by hand on the empty board: the three pairs of the tests
\* around (0, 0), and a row with a pair, a different pair, a triple and a
\* single note between the anchor and its partners
PairNotes ==
  [NoNotes EXCEPT ![0][0] = {1, 2}, ![0][1] = {1, 2, 3}, ![0][2] = {1, 2},
                  ![1][0] = {1, 2, 3}, ![2][0] = {1, 2},
                  ![1][1] = {1, 2, 3}, ![2][2] = {1, 2},
                  ![4][0] = {4, 5}, ![4][1] = {4}, ![4][3] = {4, 6}, ![4][5] = {4, 5, 6},
                  ![4][7] = {4, 5}, ![4][8] = {4, 5}]

\* grids handed to the naked-pair searches
NakedPairGrids == NakedSingleGrids \cup {CellsOf(emptyGrid, PairNotes)}

\* getNakedPairInRow, getNakedPairInColumn, getNakedPairInBox as
\* processNakedPairs and the tests call them: on an empty cell with two notes
CallGetNakedPair ==
  /\ op = "none"
  /\ \E g \in NakedPairGrids, pos \in Coords, group \in GroupNames :
       /\ g[pos.row][pos.col].value = Null
       /\ Cardinality(g[pos.row][pos.col].notes) = 2
       /\ Applied(CASE group = "row" -> "getNakedPairInRow"
                    [] group = "column" -> "getNakedPairInColumn"
                    [] group = "box" -> "getNakedPairInBox",
                  <<g, pos>>, getNakedPairIn(group, g, pos))

\* notes written by hand on the empty board: three cells of one box with the
\* same two notes, in the anchor's row and column, among cells that hold one
\* or both of the digits
ClusterNotes ==
  [NoNotes EXCEPT ![0][0] = {1, 2}, ![0][1] = {1, 2}, ![1][0] = {1, 2}, ![1][1] = {1, 2, 7},
                  ![0][5] = {1, 2, 3}, ![5][0] = {2, 9}, ![2][2] = {1}]

\* the same with the partners of (0, 0) in its row and its column outside its
\* box and a third partner inside
CrossNotes ==
  [NoNotes EXCEPT ![0][0] = {1, 2}, ![0][5] = {1, 2}, ![5][0] = {1, 2}, ![1][1] = {1, 2},
                  ![0][7] = {1, 5}, ![7][0] = {2, 5}, ![2][2] = {1, 2, 3}, ![0][2] = {2, 4},
                  ![5][5] = {1, 2, 3}]

\* grids handed to processNakedPairs
ProcessPairsGrids ==
  NakedPairGrids \cup {CellsOf(emptyGrid, ClusterNotes), CellsOf(emptyGrid, CrossNotes)}

\* processNakedPairs(grid, pos); puzzle is the caller's grid after the call
CallProcessNakedPairs ==
  /\ op = "none"
  /\ \E g \in ProcessPairsGrids, pos \in Coords :
       /\ op' = "processNakedPairs"
       /\ arg' = <<g, pos>>
       /\ \E done \in {processNakedPairs(g, pos)} :
            /\ puzzle' = done.grid
            /\ result' = Returns([found |-> done.found, applied |-> done.applied,
                                  logged |-> done.logged])
       /\ UNCHANGED <<pc, calls, rng, solverVars, genVars, storeVars>>

\* grids, anchors and sets of notes handed to removeNotesInRow,
\* removeNotesInColumn and removeNotesInBox; the second grid has notes on its
\* filled cells too
RemoveNotesGrids ==
  {CellsOf(emptyGrid, StripeNotes),
   CellsOf(ClearCells(solvedGridFixture, HolePatternB, Len(HolePatternB)), AllNotes)}

RemoveNotesAnchors == {[row |-> 4, col |-> 4], [row |-> 3, col |-> 3]}

RemoveNotesSets == {{1, 2}, {4, 5, 8}, Digits}

CallRemoveNotes ==
  /\ op = "none"
  /\ \E g \in RemoveNotesGrids, anchor \in RemoveNotesAnchors, group \in GroupNames,
        skips \in SkipLists, notes \in RemoveNotesSets :
       /\ op' = (CASE group = "row" -> "removeNotesInRow"
                   [] group = "column" -> "removeNotesInColumn"
                   [] group = "box" -> "removeNotesInBox")
       /\ arg' = <<g, anchor, skips, notes>>
       /\ \E done \in {removeNotesIn(group, g, anchor, skips, notes)} :
            /\ puzzle' = done.grid
            /\ result' = Returns(done.removed)
       /\ UNCHANGED <<pc, calls, rng, solverVars, genVars, storeVars>>

(***************************************************************************)
(* validationUtils.ts: isGridValid on a grid of numbers and nulls           *)
(***************************************************************************)
TypeError == [threw |-> TRUE, value |-> "TypeError"]

\* the cells findConflictingCells reads for pos: the rest of its row, of its
\* column and of its box
CellsRead(pos) ==
  {x \in Coords : \/ x.row = pos.row /\ x.col # pos.col
                  \/ x.col = pos.col /\ x.row # pos.row
                  \/ boxOrigin(x) = boxOrigin(pos) /\ (x.row # pos.row \/ x.col # pos.col)}

\* hasConflict(grid, pos, value) on a Grid: a cell read that is not a number
\* is taken for a Cell object, and reading .value of null throws
hasConflictInGrid(g, pos, value) ==
  IF \E x \in CellsRead(pos) : g[x.row][x.col] = Null
    THEN TypeError
    ELSE Returns(\E x \in CellsRead(pos) : g[x.row][x.col] = value)

\* the body of isGridValid's loops for the cell (row, col): the value is taken
\* out, hasConflict is asked, the value is put back unless hasConflict threw
isGridValidAt(g, row, col) ==
  LET value == g[row][col]
      lifted == [g EXCEPT ![row][col] = Null]
      hasConflicts == hasConflictInGrid(lifted, [row |-> row, col |-> col], value)
  IN  IF value = Null THEN [done |-> FALSE, result |-> Returns(TRUE), grid |-> g]
      ELSE IF hasConflicts.threw
             THEN [done |-> TRUE, result |-> hasConflicts, grid |-> lifted]
             ELSE IF hasConflicts.value
                    THEN [done |-> TRUE, result |-> Returns(FALSE), grid |-> g]
                    ELSE [done |-> FALSE, result |-> Returns(TRUE), grid |-> g]

\* isGridValid(grid): the cells in scan order up to the first one that ends
\* the call; the result with the grid the caller is left with
isGridValid(g) ==
  LET ending == {i \in 0 .. (BOARD_SIZE - 1) :
                   isGridValidAt(g, i \div GRID_SIZE, i % GRID_SIZE).done}
  IN  IF ending = {} THEN [result |-> Returns(TRUE), grid |-> g]
      ELSE LET last == isGridValidAt(g, Lowest(ending) \div GRID_SIZE,
                                     Lowest(ending) % GRID_SIZE)
           IN  [result |-> last.result, grid |-> last.grid]

\* Grids handed to isGridValid: empty, full and partly filled, with and
\* without a repeated digit.
ValidityGrids ==
  PlacementGrids \cup {ClearCells(solvedGridFixture, HolePatternA, k) : k \in {1, 3}}

\* puzzle is the caller's grid once the call has ended
CallIsGridValid ==
  /\ op = "none"
  /\ \E g \in ValidityGrids :
       \E done \in {isGridValid(g)} :
         /\ op' = "isGridValid"
         /\ arg' = g
         /\ puzzle' = done.grid
         /\ result' = done.result
         /\ UNCHANGED <<pc, calls, rng, solverVars, genVars, storeVars>>

PureInit ==
  /\ op = "none"
  /\ pc = "idle"
  /\ puzzle = emptyGrid
  /\ arg = << >>
  /\ mode = "solve"
  /\ grid = emptyGrid
  /\ rowMask = [i \in Idx |-> 0]
  /\ colMask = [i \in Idx |-> 0]
  /\ boxMask = [i \in Idx |-> 0]
  /\ solutionCount = 0
  /\ found = FALSE
  /\ stack = << >>
  /\ retVal = FALSE
  /\ result = Returns(0)
  /\ calls = << >>
  /\ rng = Free
  /\ difficulty = "easy"
  /\ solvedGrid = ZeroGrid
  /\ positions = << >>
  /\ currentPosition = 0
  /\ removedCells = 0
  /\ attempts = 0
  /\ tempValue = Null
  /\ state = createGameStore
  /\ timeouts = {}

PureNext ==
  \/ CallFromIndex
  \/ CallNewCoord
  \/ CallWithRow
  \/ CallWithCol
  \/ CallCoordsFor
  \/ CallIsValidPlacement
  \/ CallStringToGrid
  \/ CallApplyAutoNotes
  \/ CallProcessNakedSingle
  \/ CallGetNakedPair
  \/ CallProcessNakedPairs
  \/ CallRemoveNotes
  \/ CallIsGridValid

PureSpec == PureInit /\ [][PureNext]_vars

(***************************************************************************)
(* The game store: cell entry, conflict flash, undo and redo (gameStore.ts) *)
(***************************************************************************)
\* Largest number of store actions followed in one game.
MaxStoreCalls == 4

\* the cells of pos's row, column and box other than pos that hold value
findConflictingCells(cells, pos, value) ==
  {x \in Coords : /\ x.row = pos.row /\ x.col # pos.col
                  /\ cells[x.row][x.col].value = value}
    \cup {x \in Coords : /\ x.col = pos.col /\ x.row # pos.row
                         /\ cells[x.row][x.col].value = value}
    \cup {x \in Coords : /\ boxOrigin(x) = boxOrigin(pos)
                         /\ (x.row # pos.row \/ x.col # pos.col)
                         /\ cells[x.row][x.col].value = value}

hasConflict(cells, pos, value) == findConflictingCells(cells, pos, value) # {}

\* the id setTimeout hands out: one that no pending callback has
NextTimeoutId(tm) == Lowest({n \in 1 .. (Cardinality(tm) + 1) : \A t \in tm : t.id # n})

\* flashConflictingCells, called from inside setCellValue's update: clearTimeout
\* of the stored id, isFlashing set on the conflicting cells of the shared
\* grid, a callback scheduled for them and its id stored in the store value
flashConflictingCells(store, tm, pos, value) ==
  LET kept == IF store.flashTimeout # Null
                THEN {t \in tm : t.id # store.flashTimeout}
                ELSE tm
      conflictingCells == findConflictingCells(store.grid, pos, value)
      id == NextTimeoutId(kept)
  IN  IF conflictingCells = {}
        THEN [grid |-> store.grid, flashTimeout |-> store.flashTimeout, timeouts |-> kept]
        ELSE [grid |-> [r \in Idx |-> [c \in Idx |->
                          IF [row |-> r, col |-> c] \in conflictingCells
                            THEN [store.grid[r][c] EXCEPT !.isFlashing = TRUE]
                            ELSE store.grid[r][c]]],
              flashTimeout |-> id,
              timeouts |-> kept \cup {[id |-> id, cells |-> conflictingCells]}]

\* removeMatchingNodes: value leaves the notes of the row, column and box of pos
removeMatchingNodes(cells, pos, value) ==
  [r \in Idx |-> [c \in Idx |->
     IF r = pos.row \/ c = pos.col \/ boxOrigin([row |-> r, col |-> c]) = boxOrigin(pos)
       THEN [cells[r][c] EXCEPT !.notes = @ \ {value}]
       ELSE cells[r][c]]]

Untouched(store, tm) ==
  [grid |-> store.grid, flashTimeout |-> store.flashTimeout, timeouts |-> tm]

handlePencilMode(store, tm, pos, value) ==
  IF value # Null
    THEN IF hasConflict(store.grid, pos, value)
           THEN flashConflictingCells(store, tm, pos, value)
           ELSE [Untouched(store, tm) EXCEPT
                   !.grid[pos.row][pos.col].notes =
                      IF value \in @ THEN @ \ {value} ELSE @ \cup {value}]
    ELSE [Untouched(store, tm) EXCEPT !.grid[pos.row][pos.col].notes = {}]

\* mutant: the pen-mode entry is written without looking at the peers
handlePenModeUnchecked(store, tm, pos, value) ==
  IF value # Null
    THEN [Untouched(store, tm) EXCEPT
            !.grid = removeMatchingNodes(
                       [store.grid EXCEPT ![pos.row][pos.col].value = value,
                                          ![pos.row][pos.col].notes = {}],
                       pos, value)]
    ELSE [Untouched(store, tm) EXCEPT !.grid[pos.row][pos.col].value = Null]

handlePenMode(store, tm, pos, value) ==
  IF value # Null
    THEN IF hasConflict(store.grid, pos, value)
           THEN flashConflictingCells(store, tm, pos, value)
           ELSE [Untouched(store, tm) EXCEPT
                   !.grid = removeMatchingNodes(
                              [store.grid EXCEPT ![pos.row][pos.col].value = value,
                                                 ![pos.row][pos.col].notes = {}],
                              pos, value)]
    ELSE [Untouched(store, tm) EXCEPT !.grid[pos.row][pos.col].value = Null]

\* GameState: a copy of the grid and of the selected cell
GameState(store) == [grid |-> store.grid, selectedCell |-> store.selectedCell]

\* setCellValue(value) with the store value and the pending callbacks it leaves.
\* The value returned spreads the copy made before the handler ran, so the
\* timeout id that flashConflictingCells stored is overwritten by the old one.
setCellValueSnapshotsAfter(store, tm, value) ==
  LET handled == IF store.isPencilMode
                   THEN handlePencilMode(store, tm, store.selectedCell, value)
                   ELSE handlePenMode(store, tm, store.selectedCell, value)
      after == [store EXCEPT !.grid = handled.grid]
  IN  IF store.grid[store.selectedCell.row][store.selectedCell.col].isInitial
        THEN [state |-> store, timeouts |-> tm]
        ELSE [state |-> [after EXCEPT !.undoStack = Append(store.undoStack, GameState(after)),
                                      !.redoStack = << >>],
              timeouts |-> handled.timeouts]

setCellValue(store, tm, value) ==
  LET currentState == GameState(store)
      handled == IF store.isPencilMode
                   THEN handlePencilMode(store, tm, store.selectedCell, value)
                   ELSE handlePenMode(store, tm, store.selectedCell, value)
  IN  IF store.grid[store.selectedCell.row][store.selectedCell.col].isInitial
        THEN [state |-> store, timeouts |-> tm]
        ELSE [state |-> [store EXCEPT !.grid = handled.grid,
                                      !.undoStack = Append(store.undoStack, currentState),
                                      !.redoStack = << >>],
              timeouts |-> handled.timeouts]

undo(store) ==
  IF Len(store.undoStack) = 0
    THEN store
    ELSE LET currentState == GameState(store)
             previousState == store.undoStack[Len(store.undoStack)]
         IN  [store EXCEPT !.grid = previousState.grid,
                           !.selectedCell = previousState.selectedCell,
                           !.undoStack = SubSeq(store.undoStack, 1, Len(store.undoStack) - 1),
                           !.redoStack = Append(store.redoStack, currentState)]

redo(store) ==
  IF Len(store.redoStack) = 0
    THEN store
    ELSE LET currentState == GameState(store)
             nextState == store.redoStack[Len(store.redoStack)]
         IN  [store EXCEPT !.grid = nextState.grid,
                           !.selectedCell = nextState.selectedCell,
                           !.undoStack = Append(store.undoStack, currentState),
                           !.redoStack = SubSeq(store.redoStack, 1, Len(store.redoStack) - 1)]

\* the lowest empty cell in scan order, (0, 0) when the grid is full
FirstEmptyCell(cells) ==
  LET empties == {i \in 0 .. (BOARD_SIZE - 1) :
                    cells[i \div GRID_SIZE][i % GRID_SIZE].value = Null}
  IN  IF empties = {} THEN [row |-> 0, col |-> 0]
      ELSE [row |-> Lowest(empties) \div GRID_SIZE, col |-> Lowest(empties) % GRID_SIZE]

\* startGame with generateSudokuPuzzle's result p: the givens are initial cells
\* and the first empty cell is selected
startGame(store, p) ==
  LET newGrid == [r \in Idx |-> [c \in Idx |->
                    IF p[r][c] # Null
                      THEN [createInitialCell EXCEPT !.value = p[r][c], !.isInitial = TRUE]
                      ELSE createInitialCell]]
  IN  [store EXCEPT !.grid = newGrid,
                    !.initialGrid = p,
                    !.isGameStarted = TRUE,
                    !.isComplete = FALSE,
                    !.selectedCell = FirstEmptyCell(newGrid)]

\* The puzzle of the game played: the fixture with three cells open.
StorePuzzle == ClearCells(solvedGridFixture, HolePatternA, 3)

\* Cells the player selects: two open cells and a given.
SelectableCells == {[row |-> 1, col |-> 3], [row |-> 1, col |-> 4], [row |-> 0, col |-> 0]}

\* Values the player enters: the digits of the two open cells, each of which
\* conflicts in the other cell, and null.
EntryValues == {1, 9, Null}

\* One store action seen from outside: the GameState before and after it.
StoreCall(name, a, before, after) ==
  [op |-> name, arg |-> a, before |-> GameState(before), after |-> GameState(after),
   applied |-> after.undoStack # before.undoStack,
   undoable |-> Len(before.undoStack), redoable |-> Len(before.redoStack),
   changed |-> after # before]

StoreFrame == UNCHANGED <<op, pc, puzzle, arg, result, rng, solverVars, genVars>>

SelectCell ==
  /\ Len(calls) < MaxStoreCalls
  /\ \E x \in SelectableCells :
       /\ x # state.selectedCell
       /\ state' = [state EXCEPT !.selectedCell = x]
       /\ calls' = Append(calls, StoreCall("selectCell", x, state, state'))
  /\ UNCHANGED timeouts
  /\ StoreFrame

TogglePencilMode ==
  /\ Len(calls) < MaxStoreCalls
  /\ state' = [state EXCEPT !.isPencilMode = ~@]
  /\ calls' = Append(calls, StoreCall("togglePencilMode", Null, state, state'))
  /\ UNCHANGED timeouts
  /\ StoreFrame

SetCellValue ==
  /\ Len(calls) < MaxStoreCalls
  /\ \E value \in EntryValues :
       /\ state' = setCellValue(state, timeouts, value).state
       /\ timeouts' = setCellValue(state, timeouts, value).timeouts
       /\ calls' = Append(calls, StoreCall("setCellValue", value, state, state'))
  /\ StoreFrame

Undo ==
  /\ Len(calls) < MaxStoreCalls
  /\ state' = undo(state)
  /\ calls' = Append(calls, StoreCall("undo", Null, state, state'))
  /\ UNCHANGED timeouts
  /\ StoreFrame

Redo ==
  /\ Len(calls) < MaxStoreCalls
  /\ state' = redo(state)
  /\ calls' = Append(calls, StoreCall("redo", Null, state, state'))
  /\ UNCHANGED timeouts
  /\ StoreFrame

\* The callback of a flash runs a second after it was scheduled: it clears
\* isFlashing on its cells of the grid of that moment and the stored id.
FlashTimeoutFires ==
  /\ \E t \in timeouts :
       /\ state' = [state EXCEPT
                      !.grid = [r \in Idx |-> [c \in Idx |->
                                  IF [row |-> r, col |-> c] \in t.cells
                                    THEN [state.grid[r][c] EXCEPT !.isFlashing = FALSE]
                                    ELSE state.grid[r][c]]],
                      !.flashTimeout = Null]
       /\ timeouts' = timeouts \ {t}
  /\ UNCHANGED calls
  /\ StoreFrame

StoreInit ==
  /\ op = "none"
  /\ pc = "idle"
  /\ puzzle = StorePuzzle
  /\ arg = << >>
  /\ mode = "solve"
  /\ grid = emptyGrid
  /\ rowMask = [i \in Idx |-> 0]
  /\ colMask = [i \in Idx |-> 0]
  /\ boxMask = [i \in Idx |-> 0]
  /\ solutionCount = 0
  /\ found = FALSE
  /\ stack = << >>
  /\ retVal = FALSE
  /\ result = Returns(0)
  /\ calls = << >>
  /\ rng = Free
  /\ difficulty = "easy"
  /\ solvedGrid = ZeroGrid
  /\ positions = << >>
  /\ currentPosition = 0
  /\ removedCells = 0
  /\ attempts = 0
  /\ tempValue = Null
  /\ state = startGame(createGameStore, StorePuzzle)
  /\ timeouts = {}

StoreNext ==
  \/ SelectCell
  \/ TogglePencilMode
  \/ SetCellValue
  \/ Undo
  \/ Redo
  \/ FlashTimeoutFires

StoreSpec == StoreInit /\ [][StoreNext]_vars

\* Timers run: a pending callback is not postponed forever.
StoreFairSpec == StoreSpec /\ WF_vars(FlashTimeoutFires)

(***************************************************************************)
(* The store from its creation on: starting, authoring, restarting and      *)
(* checking a game (gameStore.ts)                                           *)
(***************************************************************************)
\* restartGame: the grid is rebuilt from initialGrid and both stacks are
\* emptied.  With initialGrid still [] the read initialGrid[0][0] throws
\* inside the update callback and the store keeps its value.
restartGame(store) ==
  IF store.initialGrid = << >>
    THEN store
    ELSE LET newGrid == [r \in Idx |-> [c \in Idx |->
                           IF store.initialGrid[r][c] # Null
                             THEN [createInitialCell EXCEPT
                                     !.value = store.initialGrid[r][c], !.isInitial = TRUE]
                             ELSE createInitialCell]]
         IN  [store EXCEPT !.grid = newGrid,
                           !.selectedCell = FirstEmptyCell(newGrid),
                           !.undoStack = << >>,
                           !.redoStack = << >>,
                           !.isComplete = FALSE]

initializeEditingGrid(store) ==
  [store EXCEPT !.grid = createInitialGrid, !.isGameStarted = TRUE, !.isAuthoring = TRUE]

\* startSolvingMode: every cell that holds a value becomes a given
startSolvingMode(store) ==
  [store EXCEPT !.grid = [r \in Idx |-> [c \in Idx |->
                            IF store.grid[r][c].value # Null
                              THEN [store.grid[r][c] EXCEPT !.isInitial = TRUE]
                              ELSE store.grid[r][c]]],
                !.isAuthoring = FALSE]

\* the three scans of the utility checkSolution for the cell a: b is flagged
\* together with a when it holds a's value in a's row, in a's column, or in
\* a's box in another row and another column
FlashedTogether(cells, a, b) ==
  /\ cells[a.row][a.col].value # Null
  /\ cells[b.row][b.col].value = cells[a.row][a.col].value
  /\ \/ a.row = b.row /\ a.col # b.col
     \/ a.col = b.col /\ a.row # b.row
     \/ boxOrigin(a) = boxOrigin(b) /\ a.row # b.row /\ a.col # b.col

\* the utility checkSolution(state): isFlashing is set on the cells of the
\* store's own grid and nothing clears it
checkSolutionFlags(cells) ==
  [r \in Idx |-> [c \in Idx |->
     IF \E y \in Coords : \/ FlashedTogether(cells, [row |-> r, col |-> c], y)
                           \/ FlashedTogether(cells, y, [row |-> r, col |-> c])
       THEN [cells[r][c] EXCEPT !.isFlashing = TRUE]
       ELSE cells[r][c]]]

\* the store action checkSolution
checkSolution(store) ==
  LET checked == checkSolutionFlags(store.grid)
  IN  [store EXCEPT !.grid = checked,
                    !.isComplete = \A r, c \in Idx :
                                     checked[r][c].value # Null /\ ~checked[r][c].isFlashing]

\* The puzzle with the single open cell (1, 3).
OneHolePuzzle == ClearCells(solvedGridFixture, HolePatternA, 1)

\* Puzzles a game is started with.
GamePuzzles == {StorePuzzle, OneHolePuzzle}

\* the values of the store's grid
ValuesOf(cells) == [r \in Idx |-> [c \in Idx |-> cells[r][c].value]]

GameFrame == UNCHANGED <<op, pc, arg, result, rng, solverVars, genVars>>

\* puzzle records the givens fixed by the latest start
StartGame ==
  /\ Len(calls) < MaxStoreCalls
  /\ \E p \in GamePuzzles :
       /\ state' = startGame(state, p)
       /\ puzzle' = p
       /\ calls' = Append(calls, StoreCall("startGame", p, state, state'))
  /\ UNCHANGED timeouts
  /\ GameFrame

RestartGame ==
  /\ Len(calls) < MaxStoreCalls
  /\ state.isGameStarted
  /\ state' = restartGame(state)
  /\ puzzle' = IF state.initialGrid = << >> THEN puzzle ELSE state.initialGrid
  /\ calls' = Append(calls, StoreCall("restartGame", Null, state, state'))
  /\ UNCHANGED timeouts
  /\ GameFrame

InitializeEditingGrid ==
  /\ Len(calls) < MaxStoreCalls
  /\ ~state.isGameStarted
  /\ state' = initializeEditingGrid(state)
  /\ calls' = Append(calls, StoreCall("initializeEditingGrid", Null, state, state'))
  /\ UNCHANGED <<puzzle, timeouts>>
  /\ GameFrame

StartSolvingMode ==
  /\ Len(calls) < MaxStoreCalls
  /\ state.isAuthoring
  /\ state' = startSolvingMode(state)
  /\ puzzle' = ValuesOf(state.grid)
  /\ calls' = Append(calls, StoreCall("startSolvingMode", Null, state, state'))
  /\ UNCHANGED timeouts
  /\ GameFrame

CheckSolution ==
  /\ Len(calls) < MaxStoreCalls
  /\ state.isGameStarted
  /\ state' = checkSolution(state)
  /\ calls' = Append(calls, StoreCall("checkSolution", Null, state, state'))
  /\ UNCHANGED <<puzzle, timeouts>>
  /\ GameFrame

\* the store as createGameStore leaves it: no game started, no givens
GameInit ==
  /\ op = "none"
  /\ pc = "idle"
  /\ puzzle = emptyGrid
  /\ arg = << >>
  /\ mode = "solve"
  /\ grid = emptyGrid
  /\ rowMask = [i \in Idx |-> 0]
  /\ colMask = [i \in Idx |-> 0]
  /\ boxMask = [i \in Idx |-> 0]
  /\ solutionCount = 0
  /\ found = FALSE
  /\ stack = << >>
  /\ retVal = FALSE
  /\ result = Returns(0)
  /\ calls = << >>
  /\ rng = Free
  /\ difficulty = "easy"
  /\ solvedGrid = ZeroGrid
  /\ positions = << >>
  /\ currentPosition = 0
  /\ removedCells = 0
  /\ attempts = 0
  /\ tempValue = Null
  /\ state = createGameStore
  /\ timeouts = {}

GameNext ==
  \/ StartGame
  \/ RestartGame
  \/ InitializeEditingGrid
  \/ StartSolvingMode
  \/ CheckSolution
  \/ SelectCell
  \/ TogglePencilMode
  \/ SetCellValue
  \/ Undo
  \/ Redo
  \/ FlashTimeoutFires

GameSpec == GameInit /\ [][GameNext]_vars

(***************************************************************************)
(* Starting a game: the store's generateSudokuPuzzle and startGame          *)
(* (gameStore.ts).  The store's copy of the digging loop is the loop of the *)
(* generator; what it returns is not.                                       *)
(***************************************************************************)
\* const str = "0800721000000009..." of the store's generateSudokuPuzzle
FixedPuzzleString ==
  << "0", "8", "0", "0", "7", "2", "1", "0", "0",
     "0", "0", "0", "0", "0", "0", "9", "0", "0",
     "0", "0", "0", "0", "4", "0", "0", "0", "8",
     "0", "0", "0", "0", "0", "5", "0", "0", "0",
     "9", "0", "0", "7", "0", "0", "0", "0", "0",
     "1", "6", "0", "9", "0", "0", "4", "0", "0",
     "0", "0", "0", "0", "0", "0", "3", "5", "0",
     "0", "4", "0", "3", "0", "0", "0", "1", "0",
     "2", "0", "8", "0", "0", "0", "6", "0", "4" >>

\* "return stringToGrid(str)" once the digging loop has ended, and startGame
\* building the game from the grid returned
StartGameReturn ==
  /\ pc = "dig"
  /\ op = "generateSudokuPuzzle"
  /\ ~DigContinues
  /\ result' = stringToGrid(FixedPuzzleString)
  /\ state' = startGame(state, result')
  /\ calls' = Append(calls, [op |-> "startGame", arg |-> difficulty, left |-> puzzle,
                             result |-> result', count |-> removedCells])
  /\ pc' = "idle"
  /\ UNCHANGED <<op, puzzle, arg, rng, solverVars, genVars, timeouts>>

GameStartNext ==
  \/ CallGenerateSudokuPuzzle
  \/ DfsCall
  \/ DfsLoop
  \/ DfsReturn
  \/ FillReturn
  \/ DigStep
  \/ DigReturn
  \/ StartGameReturn

GameStartSpec == GenInit /\ [][GameStartNext]_vars

(***************************************************************************)
(* Sudoku rules, stated independently of the search                         *)
(***************************************************************************)
Cells == Idx \X Idx

\* the 27 groups: rows, columns and 3x3 boxes, each a set of 9 cells
Groups ==
  {{<<r, c>> : c \in Idx} : r \in Idx}
    \cup {{<<r, c>> : r \in Idx} : c \in Idx}
    \cup {{x \in Cells : BoxOf(x[1], x[2]) = b} : b \in Idx}

\* every cell is null or a digit 1-9
IsSudokuGrid(g) == \A x \in Cells : g[x[1]][x[2]] \in Digits \cup {Null}

\* the filled cells repeat no digit in any row, column or box
NoRepeat(g) ==
  \A u \in Groups : \A x, y \in u :
    (x # y /\ g[x[1]][x[2]] # Null /\ g[y[1]][y[2]] # Null)
      => g[x[1]][x[2]] # g[y[1]][y[2]]

\* no empty cell, and every row, column and box holds each digit exactly once
IsSolvedGrid(g) == \A u \in Groups : {g[x[1]][x[2]] : x \in u} = Digits

\* every cell filled in g0 holds the same digit in g
KeepsFilled(g0, g) ==
  \A x \in Cells : g0[x[1]][x[2]] # Null => g[x[1]][x[2]] = g0[x[1]][x[2]]

\* value v is held by no cell of the row, column or box of (r, c)
FitsAt(g, r, c, v) ==
  \A k \in Idx :
    /\ g[r][k] # v
    /\ g[k][c] # v
    /\ g[(r \div BOX_SIZE) * BOX_SIZE + (k \div BOX_SIZE)]
        [(c \div BOX_SIZE) * BOX_SIZE + (k % BOX_SIZE)] # v

\* the digits that fit at cell x
Fitting(g, x) == {v \in Digits : FitsAt(g, x[1], x[2], v)}

\* the empty cells of g
EmptyCells(g) == {x \in Cells : g[x[1]][x[2]] = Null}
NumEmpty(g) == Cardinality(EmptyCells(g))

\* f itself; the comparison makes TLC tabulate a function it would otherwise
\* recompute at every application
Tabulated(f) == IF f = f THEN f ELSE f

\* g with the one fitting digit written into each cell of forced
FillForced(g, forced) ==
  Tabulated([r \in Idx |-> [c \in Idx |->
               IF <<r, c>> \in forced
                 THEN CHOOSE v \in Digits : FitsAt(g, r, c, v)
                 ELSE g[r][c]]])

RECURSIVE CountGrid(_, _)
RECURSIVE CountOver(_, _, _, _, _)
\* number of ways to fill the empty cells of g so that no digit repeats,
\* counted up to cap.  A cell where one digit fits holds it in every
\* completion, so all such cells are filled together; otherwise the count
\* branches on an empty cell with fewest fitting digits.
CountGrid(g, cap) ==
  LET empty == EmptyCells(g)
      forced == {x \in empty : Cardinality(Fitting(g, x)) = 1}
      sizes == {Cardinality(Fitting(g, x)) : x \in empty}
      least == CHOOSE k \in sizes : \A j \in sizes : k <= j
  IN IF empty = {} THEN (IF IsSolvedGrid(g) THEN 1 ELSE 0)
     ELSE IF \E x \in empty : Fitting(g, x) = {} THEN 0
     ELSE IF forced # {} THEN CountGrid(FillForced(g, forced), cap)
     ELSE CountOver(g, CHOOSE x \in empty : Cardinality(Fitting(g, x)) = least,
                    Digits, 0, cap)

\* the completions that put one of the digits vs in cell x, added to acc
CountOver(g, x, vs, acc, cap) ==
  IF vs = {} \/ acc >= cap THEN acc
  ELSE LET v == CHOOSE w \in vs : TRUE
       IN CountOver(g, x, vs \ {v},
                    acc + (IF FitsAt(g, x[1], x[2], v)
                             THEN CountGrid([g EXCEPT ![x[1]][x[2]] = v], cap - acc)
                             ELSE 0),
                    cap)

\* min(cap, number of valid completions of g)
NumCompletions(g, cap) ==
  IF IsSudokuGrid(g) /\ NoRepeat(g) THEN CountGrid(g, cap) ELSE 0

Min(a, b) == IF a < b THEN a ELSE b

\* the call that has just returned
LastCall == calls[Len(calls)]
Returned(o) == pc = "idle" /\ calls # << >> /\ LastCall.op = o

(***************************************************************************)
(* Claims about solve and hasUniqueSolution                                 *)
(***************************************************************************)
\* C1: whenever solve returns true for a grid whose filled cells repeat no
\* digit, the grid left behind has no empty cell, every row, column and box
\* holds each digit 1-9 exactly once, and the cells filled before the call
\* still hold their digits.
C1_SolveTrueLeavesSolution ==
  (Returned("solve") /\ LastCall.result
     /\ IsSudokuGrid(LastCall.arg) /\ NoRepeat(LastCall.arg))
    => (IsSolvedGrid(LastCall.left) /\ KeepsFilled(LastCall.arg, LastCall.left))

\* C2: solve returns true exactly when the grid has at least one valid
\* completion (false for every grid without one, repeated digits included).
C2_SolveTrueIffCompletable ==
  (Returned("solve") /\ IsSudokuGrid(LastCall.arg))
    => (LastCall.result <=> NumCompletions(LastCall.arg, 1) >= 1)

\* C3: when solve returns false every cell holds what it held before the call.
C3_SolveFalseLeavesBoardAsFound ==
  (Returned("solve") /\ ~LastCall.result /\ IsSudokuGrid(LastCall.arg))
    => LastCall.left = LastCall.arg

\* C4: for a grid whose filled cells repeat no digit, hasUniqueSolution returns
\* true exactly when there is exactly one valid completion, and the count it
\* computes with cap 2 is min(2, number of valid completions).
C4_UniqueIffOneCompletion ==
  (Returned("hasUniqueSolution")
     /\ IsSudokuGrid(LastCall.arg) /\ NoRepeat(LastCall.arg))
    => /\ LastCall.result <=> (NumCompletions(LastCall.arg, 2) = 1)
       /\ LastCall.count = Min(2, NumCompletions(LastCall.arg, 2))

\* C5: two runs of hasUniqueSolution on the same grid return the same boolean,
\* whatever the shuffles were.
C5_UniqueResultIndependentOfShuffle ==
  \A i, j \in DOMAIN calls :
    (calls[i].op = "hasUniqueSolution" /\ calls[j].op = "hasUniqueSolution"
       /\ IsSudokuGrid(calls[i].arg) /\ calls[i].arg = calls[j].arg)
      => calls[i].result = calls[j].result

\* C6: hasUniqueSolution never mutates the caller's grid: during the search and
\* after the call every cell of the argument holds what it held before.
C6_HasUniqueLeavesCallersGrid ==
  /\ (op = "hasUniqueSolution" => puzzle = arg)
  /\ (Returned("hasUniqueSolution") => LastCall.left = LastCall.arg)

\* C6 witness: a hasUniqueSolution call has returned after a search that wrote
\* to its private copy and stopped at the cap.
C6_Witness ==
  /\ Returned("hasUniqueSolution")
  /\ LastCall.count = 2
  /\ grid # puzzle

(***************************************************************************)
(* Claims about generateSolvedGrid and generateSudokuPuzzle                 *)
(***************************************************************************)
\* the call before the one that has just returned
PrevCall == calls[Len(calls) - 1]

\* C7: every puzzle returned by generateSudokuPuzzle has exactly one valid
\* completion, and so does the puzzle after each iteration of the digging loop.
C7_PuzzleAlwaysHasOneCompletion ==
  /\ (op = "generateSudokuPuzzle" /\ pc = "dig") => NumCompletions(puzzle, 2) = 1
  /\ Returned("generateSudokuPuzzle") => NumCompletions(LastCall.result, 2) = 1

\* C8: hasUniqueSolution called on the puzzle generateSudokuPuzzle(d) returned
\* returns true, for every difficulty d.
C8_HasUniqueTrueOnGeneratedPuzzle ==
  (Returned("hasUniqueSolution") /\ Len(calls) >= 2
     /\ PrevCall.op = "generateSudokuPuzzle" /\ LastCall.arg = PrevCall.result)
    => LastCall.result = TRUE

\* C9: generateSolvedGrid always succeeds (its search ends having found a
\* solution) and returns a grid with no empty cell in which every row, column
\* and box holds each digit 1-9 exactly once.
C9_GenerateSolvedGridIsSolved ==
  /\ (op = "generateSolvedGrid" /\ BacktrackDone) => (found /\ IsSolvedGrid(grid))
  /\ Returned("generateSolvedGrid") => IsSolvedGrid(LastCall.result)

\* C9 witness: generateSolvedGrid has returned twice on one stream, with two
\* different solved grids.
C9_Witness ==
  /\ Returned("generateSolvedGrid")
  /\ Len(calls) >= 2
  /\ PrevCall.op = "generateSolvedGrid"
  /\ PrevCall.result # LastCall.result
  /\ IsSolvedGrid(LastCall.result)

\* the removal counts of the difficulty table
C10_Table ==
  [easy |-> 30, medium |-> 40, hard |-> 50, expert |-> 55, master |-> 60, extreme |-> 65]

FilledAgree(g, h) ==
  \A x \in Cells : g[x[1]][x[2]] # Null => g[x[1]][x[2]] = h[x[1]][x[2]]

\* C11: throughout the digging loop every filled cell of the puzzle holds the
\* digit of the solved grid and, between iterations, the number of empty cells
\* equals removedCells; while hasUniqueSolution runs on a removal, the one
\* extra empty cell is the position being tried and tempValue is its digit.
C11_PuzzleTracksSolvedGrid ==
  /\ (op = "generateSudokuPuzzle" /\ pc = "dig")
       => (FilledAgree(puzzle, solvedGrid) /\ NumEmpty(puzzle) = removedCells)
  /\ (op = "generateSudokuPuzzle" /\ mode = "unique" /\ pc \in {"call", "loop", "ret"})
       => LET row == positions[currentPosition + 1][1]
              col == positions[currentPosition + 1][2]
          IN /\ FilledAgree(puzzle, solvedGrid)
             /\ NumEmpty(puzzle) = removedCells + 1
             /\ puzzle[row][col] = Null
             /\ tempValue = solvedGrid[row][col]

\* C11 witness: between two iterations, after at least one removal was kept and
\* at least one was undone.
C11_Witness ==
  /\ op = "generateSudokuPuzzle"
  /\ pc = "dig"
  /\ removedCells > 0
  /\ attempts > removedCells
  /\ NumEmpty(puzzle) = removedCells

(***************************************************************************)
(* Claims about Coord                                                       *)
(***************************************************************************)
\* C12: Coord.fromIndex(i) throws a RangeError for every integer i outside
\* 0..80; new Coord(row, col), withRow and withCol throw one whenever the
\* resulting row or column is outside 0..8; a coordinate that is constructed
\* has exactly the requested row and column (nothing is clamped).
C12_OutOfRangeThrows ==
  /\ op = "Coord.fromIndex"
       => /\ (arg[1] \notin 0 .. 80) => result.threw
          /\ ~(result.threw) => (result.value.row \in 0 .. 8 /\ result.value.col \in 0 .. 8)
  /\ op = "new Coord"
       => /\ (arg[1] \notin 0 .. 8 \/ arg[2] \notin 0 .. 8) => result.threw
          /\ ~(result.threw) => result.value = [row |-> arg[1], col |-> arg[2]]
  /\ op = "withRow"
       => /\ (arg[2] \notin 0 .. 8) => result.threw
          /\ ~(result.threw) => result.value = [row |-> arg[2], col |-> arg[1].col]
  /\ op = "withCol"
       => /\ (arg[2] \notin 0 .. 8) => result.threw
          /\ ~(result.threw) => result.value = [row |-> arg[1].row, col |-> arg[2]]

\* C12 witness: new Coord was called with a row just past the last one and threw.
C12_Witness ==
  /\ op = "new Coord"
  /\ arg[1] = 9
  /\ arg[2] \in 0 .. 8
  /\ result = RangeError

\* C13: for every index i in 0..80, Coord.fromIndex(i) is the cell
\* (i div 9, i mod 9) and its index is i again; for every cell (row, col),
\* fromIndex(row*9+col) is that cell; fromIndex(0) = (0,0), fromIndex(80) = (8,8).
C13_FromIndexRoundTrip ==
  /\ (op = "Coord.fromIndex" /\ arg[1] \in 0 .. 80)
       => /\ result = Returns([row |-> arg[1] \div 9, col |-> arg[1] % 9])
          /\ index(result.value) = arg[1]
          /\ (arg[1] = 0 => result.value = [row |-> 0, col |-> 0])
          /\ (arg[1] = 80 => result.value = [row |-> 8, col |-> 8])
  /\ (op = "new Coord" /\ ~(result.threw))
       => fromIndex(arg[1] * 9 + arg[2]) = result

\* C13 witness: fromIndex(80) returned the last cell.
C13_Witness ==
  /\ op = "Coord.fromIndex"
  /\ arg[1] = 80
  /\ result = Returns([row |-> 8, col |-> 8])

\* the cells of the row, column or box of c
GroupOf(c, group) ==
  CASE group = "row" -> {x \in Coords : x.row = c.row}
    [] group = "column" -> {x \in Coords : x.col = c.col}
    [] group = "box" -> {x \in Coords : /\ x.row \in (3 * (c.row \div 3)) .. (3 * (c.row \div 3) + 2)
                                        /\ x.col \in (3 * (c.col \div 3)) .. (3 * (c.col \div 3) + 2)}

SeqRange(q) == {q[k] : k \in DOMAIN q}

\* C14: coordsFor(group) with no skips returns exactly the 9 cells of the
\* coordinate's row, column or 3x3 box, the coordinate included and no cell
\* twice; with skips it returns those cells minus exactly the skipped
\* coordinates that lie in the group.
C14_CoordsForIsGroupMinusSkips ==
  op = "coordsFor"
    => /\ ~(result.threw)
       /\ SeqRange(result.value) = GroupOf(arg[1], arg[2]) \ SeqRange(arg[3])
       /\ Len(result.value) = Cardinality(SeqRange(result.value))
       /\ arg[3] = << >> => (Len(result.value) = 9 /\ arg[1] \in SeqRange(result.value))

\* C14 witness: coordsFor("box") was called with one skip inside the box and
\* one outside it, and returned 8 cells.
C14_Witness ==
  /\ op = "coordsFor"
  /\ arg[2] = "box"
  /\ Len(arg[3]) = 2
  /\ Cardinality(SeqRange(arg[3]) \cap GroupOf(arg[1], "box")) = 1
  /\ Len(result.value) = 8

(***************************************************************************)
(* Claims about isValidPlacement and stringToGrid                           *)
(***************************************************************************)
\* the cells other than pos in the row, column or box of pos
OtherCellsOfGroups(pos) ==
  (GroupOf(pos, "row") \cup GroupOf(pos, "column") \cup GroupOf(pos, "box")) \ {pos}

\* C15: isValidPlacement(grid, pos, value) returns true exactly when no cell
\* other than pos in pos's row, column or box holds value; what pos itself
\* holds does not change the answer; the grid is left as it was.
C15_ValidPlacementIffNoPeerHolds ==
  op = "isValidPlacement"
    => LET g == arg[1]
           pos == arg[2]
           value == arg[3]
       IN /\ result.value <=> (\A x \in OtherCellsOfGroups(pos) : g[x.row][x.col] # value)
          /\ \A v \in Digits \cup {Null} :
               isValidPlacement([g EXCEPT ![pos.row][pos.col] = v], pos, value) = result.value
          /\ puzzle = g

\* C15 witness: pos itself holds the value, no other cell of its groups does,
\* and the answer is true.
C15_Witness ==
  /\ op = "isValidPlacement"
  /\ arg[1][arg[2].row][arg[2].col] = arg[3]
  /\ result.value = TRUE

\* C16: stringToGrid maps an 81-character digit string in row-major order:
\* character i lands in cell (i div 9, i mod 9), '0' becomes an empty cell and
\* '1'..'9' become that digit; the number of filled cells is the number of
\* non-zero characters.
C16_StringToGridRowMajor ==
  op = "stringToGrid"
    => LET str == arg[1]
           g == result.value
       IN /\ \A i \in 0 .. 80 :
               LET cell == g[i \div 9][i % 9]
               IN IF str[i + 1] = "0" THEN cell = Null
                  ELSE cell \in 1 .. 9 /\ DigitChars[cell + 1] = str[i + 1]
          /\ 81 - NumEmpty(g) = Cardinality({i \in 1 .. 81 : str[i] # "0"})

\* C16 witness: a string with both zero and non-zero characters was converted.
C16_Witness ==
  /\ op = "stringToGrid"
  /\ arg[1][1] = "0"
  /\ arg[1][2] # "0"
  /\ NumEmpty(result.value) \in 1 .. 80

(***************************************************************************)
(* Claims about the notes                                                   *)
(***************************************************************************)
\* the digits that no cell other than pos in pos's row, column or box has as
\* its value
FreeDigits(cells, pos) ==
  {d \in Digits : \A x \in OtherCellsOfGroups(pos) : cells[x.row][x.col].value # d}

\* C17: after applyAutoNotes the notes of every empty cell are exactly the
\* digits that no other cell of its row, column or box has as its value,
\* whatever notes it had before; no value changes and the notes of filled
\* cells are as they were.
C17_AutoNotesAreFreeDigits ==
  op = "applyAutoNotes"
    => \A pos \in Coords :
         LET before == arg[1][pos.row][pos.col]
             after == puzzle[pos.row][pos.col]
         IN /\ after.value = before.value
            /\ before.value = Null => after.notes = FreeDigits(arg[1], pos)
            /\ before.value # Null => after.notes = before.notes

\* C17 witness: applyAutoNotes ran on a grid in which an empty cell had notes
\* that are not its free digits and a filled cell had notes too.
C17_Witness ==
  /\ op = "applyAutoNotes"
  /\ \E pos \in Coords :
       /\ arg[1][pos.row][pos.col].value = Null
       /\ arg[1][pos.row][pos.col].notes \ FreeDigits(arg[1], pos) # {}
       /\ puzzle[pos.row][pos.col].notes # arg[1][pos.row][pos.col].notes
  /\ \E pos \in Coords :
       /\ arg[1][pos.row][pos.col].value # Null
       /\ arg[1][pos.row][pos.col].notes # {}

\* C18: a second applyAutoNotes right after a first one leaves every cell's
\* notes as the first one left them.
C18_AutoNotesIdempotent ==
  \A n \in 2 .. Len(calls) :
    (calls[n].op = "applyAutoNotes" /\ calls[n - 1].op = "applyAutoNotes")
      => \A pos \in Coords :
           calls[n].left[pos.row][pos.col].notes = calls[n - 1].left[pos.row][pos.col].notes

\* C18 witness: applyAutoNotes ran twice in a row on a grid with empty cells,
\* the first run having changed some notes.
C18_Witness ==
  /\ Len(calls) >= 2
  /\ calls[1].op = "applyAutoNotes"
  /\ calls[2].op = "applyAutoNotes"
  /\ calls[1].left # calls[1].arg
  /\ \E pos \in Coords : /\ calls[2].left[pos.row][pos.col].value = Null
                         /\ Cardinality(calls[2].left[pos.row][pos.col].notes) = 1

\* the values and the notes of the cells of pos's group other than pos: what
\* each of them shows, its value when it is filled and its notes when it is
\* empty
ValuesAndNotes(cells, pos, group) ==
  UNION { IF cells[x.row][x.col].value \in Digits
            THEN {cells[x.row][x.col].value}
            ELSE cells[x.row][x.col].notes :
            x \in GroupOf(pos, group) \ {pos} }

\* the notes of pos that none of the other cells of its group has as a value
\* or as a note
OwnNotes(cells, pos, group) ==
  cells[pos.row][pos.col].notes \ ValuesAndNotes(cells, pos, group)

\* the first of row, column, box in which pos has exactly one note of its own
FirstGroupWithOne(cells, pos) ==
  IF Cardinality(OwnNotes(cells, pos, "row")) = 1 THEN "row"
  ELSE IF Cardinality(OwnNotes(cells, pos, "column")) = 1 THEN "column"
  ELSE IF Cardinality(OwnNotes(cells, pos, "box")) = 1 THEN "box"
  ELSE "none"

SearchedGroup ==
  CASE op = "getNakedPairInRow" -> "row"
    [] op = "getNakedPairInColumn" -> "column"
    [] op = "getNakedPairInBox" -> "box"
    [] OTHER -> "none"

\* the cells of pos's group that come after pos, reading the board row by row
LaterCells(pos, group) ==
  {x \in GroupOf(pos, group) : x.row * 9 + x.col > pos.row * 9 + pos.col}

\* the later cells of the group whose notes are the anchor's two notes
Partners(cells, pos, group) ==
  {x \in LaterCells(pos, group) :
     /\ Cardinality(cells[pos.row][pos.col].notes) = 2
     /\ cells[x.row][x.col].notes = cells[pos.row][pos.col].notes}

ShareBox(a, b) == a.row \div 3 = b.row \div 3 /\ a.col \div 3 = b.col \div 3

\* no empty cell of S in grid cells has a note of ds
CleanOf(cells, S, ds) ==
  \A x \in S : cells[x.row][x.col].value = Null => cells[x.row][x.col].notes \cap ds = {}

RemovedGroup ==
  CASE op = "removeNotesInRow" -> "row"
    [] op = "removeNotesInColumn" -> "column"
    [] op = "removeNotesInBox" -> "box"
    [] OTHER -> "none"

RECURSIVE NotesLost(_, _, _)
\* how many notes the cells of S hold less in after than in before
NotesLost(before, after, S) ==
  IF S = {} THEN 0
  ELSE LET x == CHOOSE y \in S : TRUE
       IN Cardinality(before[x.row][x.col].notes) - Cardinality(after[x.row][x.col].notes)
            + NotesLost(before, after, S \ {x})

\* C22: removeNotesInRow, removeNotesInColumn and removeNotesInBox return the
\* number of notes they deleted; they delete the notes of the removal set from
\* the empty cells of the anchor's group that are not skipped, and leave
\* skipped cells, filled cells, cells outside the group and all other notes
\* as they were.
C22_RemoveNotesCountAndFrame ==
  RemovedGroup # "none"
    => LET before == arg[1]
           anchor == arg[2]
           skips == arg[3]
           notes == arg[4]
           targets == {x \in GroupOf(anchor, RemovedGroup) :
                         x \notin SeqRange(skips) /\ before[x.row][x.col].value = Null}
       IN /\ \A x \in Coords :
               /\ puzzle[x.row][x.col].value = before[x.row][x.col].value
               /\ puzzle[x.row][x.col].notes =
                    IF x \in targets THEN before[x.row][x.col].notes \ notes
                    ELSE before[x.row][x.col].notes
          /\ result.value = NotesLost(before, puzzle, GroupOf(anchor, RemovedGroup))

\* C22 witness: a removal with a skipped cell and a filled cell in the group,
\* both holding notes of the removal set, deleted two notes from one cell.
C22_Witness ==
  /\ RemovedGroup # "none"
  /\ result.value > 2
  /\ \E x \in GroupOf(arg[2], RemovedGroup) :
       /\ x \in SeqRange(arg[3])
       /\ arg[1][x.row][x.col].notes \cap arg[4] # {}
  /\ \E x \in GroupOf(arg[2], RemovedGroup) :
       /\ arg[1][x.row][x.col].value # Null
       /\ arg[1][x.row][x.col].notes \cap arg[4] # {}
  /\ \E x \in GroupOf(arg[2], RemovedGroup) :
       Cardinality(arg[1][x.row][x.col].notes) - Cardinality(puzzle[x.row][x.col].notes) >= 2

(***************************************************************************)
(* Claims about the search                                                  *)
(***************************************************************************)
\* g is h with one of its givens taken out
OneGivenLess(g, h) ==
  \E x \in Coords :
    /\ h[x.row][x.col] # Null
    /\ g = [h EXCEPT ![x.row][x.col] = Null]

PlayerView(gs) ==
  [cells |-> [r \in Idx |-> [c \in Idx |->
                [value |-> gs.grid[r][c].value, notes |-> gs.grid[r][c].notes]]],
   selectedCell |-> gs.selectedCell]

\* C24: an undo straight after a setCellValue that went through leaves every
\* cell's value and notes and the selected cell as they were just before that
\* setCellValue, a redo straight after that undo leaves them as they were just
\* after the setCellValue, and undo on an empty undo stack and redo on an
\* empty redo stack leave the store as it was.
C24_UndoRedoRestore ==
  \A n \in 1 .. Len(calls) :
    /\ (/\ n > 1 /\ calls[n].op = "undo"
        /\ calls[n - 1].op = "setCellValue" /\ calls[n - 1].applied)
         => PlayerView(calls[n].after) = PlayerView(calls[n - 1].before)
    /\ (/\ n > 2 /\ calls[n].op = "redo" /\ calls[n - 1].op = "undo"
        /\ calls[n - 2].op = "setCellValue" /\ calls[n - 2].applied)
         => PlayerView(calls[n].after) = PlayerView(calls[n - 2].after)
    /\ (calls[n].op = "undo" /\ calls[n].undoable = 0) => ~(calls[n].changed)
    /\ (calls[n].op = "redo" /\ calls[n].redoable = 0) => ~(calls[n].changed)

\* C24 witness: an entry that changed the board has been undone and redone.
C24_Witness ==
  /\ Len(calls) >= 3
  /\ calls[Len(calls)].op = "redo"
  /\ calls[Len(calls) - 1].op = "undo"
  /\ calls[Len(calls) - 2].op = "setCellValue"
  /\ calls[Len(calls) - 2].applied
  /\ PlayerView(calls[Len(calls) - 2].before) # PlayerView(calls[Len(calls) - 2].after)
  /\ PlayerView(GameState(state)) = PlayerView(calls[Len(calls) - 2].after)
  /\ calls[1].op = "undo" /\ calls[1].undoable = 0

\* some cell of the board is flashing
AnyFlashing == \E x \in Coords : state.grid[x.row][x.col].isFlashing

\* C25: conflict flashes are transient: whenever a cell is flashing, whatever
\* store actions follow (entries, undo, redo), the flash timeouts that fire
\* lead to a board on which no cell is flashing; no cell is left flashing for
\* ever.
C25_FlashesAreTransient == AnyFlashing ~> ~AnyFlashing

(***************************************************************************)
(* Claims about the masks and the steps of the search                       *)
(***************************************************************************)
\* the search is running: bitmaskBacktrack has been entered and has not returned
Searching == pc \in {"call", "loop", "ret"}

\* some cell of the sequence cells holds v in the searched grid
Holds(cells, v) == \E k \in DOMAIN cells : grid[cells[k][1]][cells[k][2]] = v

\* bit v-1 of each mask is set exactly when its row, column or box holds v
MasksInSync ==
  \A i \in Idx : \A v \in Digits :
    /\ HasBit(rowMask[i], 2 ^ (v - 1)) <=> Holds(RowCells(i), v)
    /\ HasBit(colMask[i], 2 ^ (v - 1)) <=> Holds(ColCells(i), v)
    /\ HasBit(boxMask[i], 2 ^ (v - 1)) <=> Holds(BoxCells(i), v)

\* the step places the candidate of the innermost dfs call
Places == pc = "loop" /\ pc' = "call"

\* the step rolls the candidate of the innermost dfs call back
RollsBack == pc = "ret" /\ pc' = "loop"

\* bit v-1 is set in the masks ms of the row, column and box of cell (r, c)
InAllThree(rm, cm, bm, r, c, v) ==
  /\ HasBit(rm[r], 2 ^ (v - 1))
  /\ HasBit(cm[c], 2 ^ (v - 1))
  /\ HasBit(bm[BoxOf(r, c)], 2 ^ (v - 1))

InNoneOfThree(rm, cm, bm, r, c, v) ==
  /\ ~HasBit(rm[r], 2 ^ (v - 1))
  /\ ~HasBit(cm[c], 2 ^ (v - 1))
  /\ ~HasBit(bm[BoxOf(r, c)], 2 ^ (v - 1))

\* C26: while bitmaskBacktrack searches, bit v-1 of rowMask[r], colMask[c]
\* and boxMask[b] is set exactly when a cell of that row, column or box holds
\* digit v; a placement leaves the digit's bit set in all three masks of the
\* cell and a rollback leaves it clear in all three.
C26_MasksInSyncWithGrid ==
  /\ [](Searching => MasksInSync)
  /\ [][/\ Places => InAllThree(rowMask', colMask', boxMask',
                                  Top.row, Top.col, Top.shuffled[Top.k])
        /\ RollsBack => InNoneOfThree(rowMask', colMask', boxMask',
                                       Top.row, Top.col, Top.shuffled[Top.k])]_vars

\* C26 witness: a candidate has been rolled back (the innermost call is at a
\* later candidate) and deeper cells are filled, with the masks in sync.
C26_Witness ==
  /\ pc = "loop"
  /\ Len(stack) >= 2
  /\ Top.k > 1
  /\ MasksInSync

\* the masks ms2 are the masks ms1 without bit v-1 at index i
Without(ms1, ms2, i, v) ==
  \A j \in Idx : \A w \in Digits :
    HasBit(ms2[j], 2 ^ (w - 1)) <=> (HasBit(ms1[j], 2 ^ (w - 1)) /\ ~(j = i /\ w = v))

\* C27: when a candidate has failed, the step that rolls it back leaves its
\* cell empty by the emptiness test of the search (null for solve and
\* hasUniqueSolution, 0 for fillGrid) and leaves the three masks without the
\* candidate's bit, as they were before it was placed.
C27_RollbackLeavesCellEmpty ==
  [][RollsBack =>
       /\ IsEmptyCell(mode, grid'[Top.row][Top.col])
       /\ Without(rowMask, rowMask', Top.row, Top.shuffled[Top.k])
       /\ Without(colMask, colMask', Top.col, Top.shuffled[Top.k])
       /\ Without(boxMask, boxMask', BoxOf(Top.row, Top.col), Top.shuffled[Top.k])]_vars

\* C28: while solve or hasUniqueSolution searches a grid that was handed over
\* with no digit repeated among its filled cells, no two non-empty cells of a
\* row, column or box of the board hold the same value.
C28_PartialValidity == (Searching /\ NoRepeat(arg)) => NoRepeat(grid)

\* the cells that the emptiness test of the running search reports empty
SearchEmpty == {x \in Cells : IsEmptyCell(mode, grid[x[1]][x[2]])}

\* the number of digits that no cell of x's row, column and box holds
NumLegal(x) == Cardinality({v \in Digits : FitsAt(grid, x[1], x[2], v)})

\* the innermost dfs call has just picked its cell and is about to try its
\* first candidate
JustPicked == pc = "loop" /\ stack # << >> /\ Top.k = 1

\* C29: the cell a dfs call picks has the fewest legal values of all empty
\* cells of the grid, and of the empty cells with that count it is the first
\* in scan order (lowest row, then lowest column).
C29_PicksFewestLegalFirstInScan ==
  JustPicked =>
    \A y \in SearchEmpty :
      \/ NumLegal(<<Top.row, Top.col>>) < NumLegal(y)
      \/ /\ NumLegal(<<Top.row, Top.col>>) = NumLegal(y)
         /\ Top.row * GRID_SIZE + Top.col <= y[1] * GRID_SIZE + y[2]

\* some empty cell of the searched grid has no legal value
DeadEnd == \E x \in SearchEmpty : NumLegal(x) = 0

\* C30: a dfs call entered on a grid in which some empty cell has no legal
\* value fails at once: it leaves the grid as it is and has no candidate to
\* place or to recurse on.
C30_DeadEndFailsAtOnce ==
  [][(pc = "call" /\ DeadEnd) =>
       /\ grid' = grid
       /\ pc' = "loop" => stack'[Len(stack')].shuffled = << >>]_vars

(***************************************************************************)
(* Claims about the search as a whole                                       *)
(***************************************************************************)
\* C31: while solve or hasUniqueSolution searches, for every empty cell the
\* list derived from rowMask | colMask | boxMask is the ascending list of the
\* digits that no cell of its row, column or box holds, which is the list
\* getLegalValues computes from the grid, and the cell the search's
\* findMRVCell picks is the cell engine's findMRVCell returns for that grid.
C31_MaskLegalValuesMatchGridScan ==
  Searching =>
    /\ \A x \in SearchEmpty :
         /\ LegalOf(rowMask, colMask, boxMask, x[1], x[2]) = getLegalValues(grid, x[1], x[2])
         /\ \A v \in Digits :
              (\E k \in 1 .. Len(getLegalValues(grid, x[1], x[2])) :
                 getLegalValues(grid, x[1], x[2])[k] = v)
                <=> FitsAt(grid, x[1], x[2], v)
         /\ \A k \in 2 .. Len(getLegalValues(grid, x[1], x[2])) :
              getLegalValues(grid, x[1], x[2])[k - 1] < getLegalValues(grid, x[1], x[2])[k]
    /\ FindMRVCell(mode, grid, rowMask, colMask, boxMask) = findMRVCell(grid)

\* C31 witness: deep in a search on a grid that holds a rolled-back 0, a cell
\* with several legal values is picked by both.
C31_Witness ==
  /\ Searching
  /\ Len(stack) >= 2
  /\ \E x \in Cells : grid[x[1]][x[2]] = 0
  /\ findMRVCell(grid) # NoCell
  /\ Len(findMRVCell(grid).legal) >= 2
  /\ FindMRVCell(mode, grid, rowMask, colMask, boxMask) = findMRVCell(grid)

\* the search counts solutions and its counter has reached the cap
CapReached == Searching /\ MaxSolutions(mode) # 0 /\ solutionCount >= MaxSolutions(mode)

\* C32: in counting mode, once the counter has reached the cap no step of
\* the search places a digit in a cell and none records a further solution.
C32_CapReachedUnwindsAtOnce ==
  [][CapReached => (~Places /\ solutionCount' = solutionCount)]_vars

\* the cells held by the dfs calls that are in progress, outermost first
HeldCells == [k \in 1 .. Len(stack) |-> <<stack[k].row, stack[k].col>>]

\* C33: every call of solve and hasUniqueSolution returns, and while it runs
\* the dfs calls in progress hold pairwise different cells, all of them empty
\* in the grid the call was given, so they are never more than the cells that
\* were empty at the start (at most 81).
C33_TerminatesWithinDepth ==
  /\ [](Searching =>
         /\ Len(stack) <= NumEmpty(arg)
         /\ Len(stack) <= BOARD_SIZE
         /\ \A k \in 1 .. Len(stack) :
              /\ arg[HeldCells[k][1]][HeldCells[k][2]] = Null
              /\ \A j \in 1 .. (k - 1) : HeldCells[j] # HeldCells[k])
  /\ (Searching ~> pc = "idle")

\* C33 witness: a first call has returned and a second one is as deep as the
\* number of cells that were empty when it started.
C33_Witness ==
  /\ calls # << >>
  /\ Searching
  /\ Len(stack) = NumEmpty(arg)
  /\ Len(stack) >= 5

(***************************************************************************)
(* Claims about the store over a whole game                                 *)
(***************************************************************************)
\* a game is being played: started, and not in the authoring phase
Playing == state.isGameStarted /\ ~state.isAuthoring

\* C34: once a start has fixed the givens, every given cell still holds the
\* value it was given and is still flagged isInitial, after any later
\* setCellValue, undo, redo and selection, whatever was done before the start.
C34_GivensAreImmutable ==
  Playing =>
    \A r, c \in Idx :
      puzzle[r][c] # Null =>
        state.grid[r][c].value = puzzle[r][c] /\ state.grid[r][c].isInitial

\* some other cell of a row, column or box of pos holds v in cells
PeerHolds(cells, pos, v) ==
  \E u \in Groups : <<pos.row, pos.col>> \in u /\
    \E x \in u : x # <<pos.row, pos.col>> /\ cells[x[1]][x[2]].value = v

\* call k entered a digit that a peer of the selected cell already held
Conflicting(k) ==
  /\ calls[k].op = "setCellValue"
  /\ calls[k].arg # Null
  /\ PeerHolds(calls[k].before.grid, calls[k].before.selectedCell, calls[k].arg)

\* C35: from a conflict-free start, through setCellValue in either mode,
\* undo, redo and restartGame, no row, column or box of the store's grid holds
\* a value twice, and the entry just made, if it would duplicate a peer's
\* value, has left the value of every cell as it was.
C35_NoDuplicateValues ==
  /\ NoRepeat(ValuesOf(state.grid))
  /\ (calls # << >> /\ Conflicting(Len(calls))) =>
       ValuesOf(calls[Len(calls)].after.grid) = ValuesOf(calls[Len(calls)].before.grid)

\* C35 witness: after a restart, a pen-mode entry that a peer's value forbids
\* has just been made in a cell that is open.
C35_Witness ==
  /\ Len(calls) >= 2
  /\ Conflicting(Len(calls))
  /\ ~state.isPencilMode
  /\ ~state.grid[state.selectedCell.row][state.selectedCell.col].isInitial
  /\ \E j \in 1 .. (Len(calls) - 1) : calls[j].op = "restartGame"
  /\ \A j \in 1 .. Len(calls) : calls[j].op # "togglePencilMode"

\* the notes of the store's grid
NotesOf(cells) == [r \in Idx |-> [c \in Idx |-> cells[r][c].notes]]

\* C36: a setCellValue rejected because a peer holds the digit leaves the
\* values, the notes, the undo stack and the redo stack as they were before
\* the call (stated of the latest call; the flash callback touches none of
\* them).
C36_RejectedEntryKeepsStacks ==
  (calls # << >> /\ Conflicting(Len(calls))
     /\ ~LastCall.before.grid[LastCall.before.selectedCell.row][LastCall.before.selectedCell.col].isInitial) =>
    /\ ValuesOf(state.grid) = ValuesOf(LastCall.before.grid)
    /\ NotesOf(state.grid) = NotesOf(LastCall.before.grid)
    /\ Len(state.undoStack) = LastCall.undoable
    /\ Len(state.redoStack) = LastCall.redoable

\* every cell of the store's grid holds a value
AllFilled(cells) == \A r, c \in Idx : cells[r][c].value # Null

\* C37: after the store's checkSolution, isComplete is true exactly when every
\* cell is filled and no row, column or box holds a value twice, whatever
\* flash, undo or earlier check came before.
C37_IsCompleteIffSolved ==
  (calls # << >> /\ LastCall.op = "checkSolution") =>
    (state.isComplete <=> (AllFilled(state.grid) /\ NoRepeat(ValuesOf(state.grid))))

(***************************************************************************)
(* Claims about isGridValid and about the puzzle of a game                  *)
(***************************************************************************)
\* C38: isGridValid(grid) returns true exactly when no two filled cells of a
\* row, column or box hold the same digit, on partly filled grids as on full
\* ones, and leaves every cell of the grid as it was.
C38_IsGridValidIffNoRepeat ==
  op = "isGridValid" =>
    /\ ~(result.threw)
    /\ result.value = NoRepeat(arg)
    /\ puzzle = arg

\* C39: the puzzle a game is started with is the result of the digging of
\* that call: the grid the loop was left with, whose filled cells are cells
\* of the solved grid generated in the same call.
C39_GameStartsWithDugPuzzle ==
  state.isGameStarted =>
    /\ ValuesOf(state.grid) = puzzle
    /\ \A r, c \in Idx :
         state.grid[r][c].value # Null => state.grid[r][c].value = solvedGrid[r][c]

====
